---- MODULE Spec2Model ----
(***************************************************************************)
(* A model of the shared store (src/src/db.rs) and of the command          *)
(* execution paths that use it (src/src/cmd/*.rs) of rust-mini-redis.      *)
(*                                                                         *)
(* The state mutex is modelled explicitly (lock, poisoned): a std Mutex    *)
(* whose holder panics becomes poisoned, and every later lock().unwrap()   *)
(* panics.  Db::set is split at its statements so that states in which the *)
(* mutex is held are visible.                                              *)
(***************************************************************************)
EXTENDS Integers, Sequences, FiniteSets, TLC

\* ------------------------------------------------------------------ bounds
NumKeys == 2
NumVals == 2
NumChans == 2
MaxTime == 1
MaxExpire == 1
MaxCmds == 3
MaxPubSubCmds == 3
NumMsgs == 1
MaxArgs == 2

\* ---------------------------------------------------------------- universe
Conns == {1, 2}
Free == 0
BgTask == 3
Guard == 4

KeyNames == <<"k1", "k2", "k3", "k4">>
ValNames == <<"a", "b", "c", "d">>
ChanNames == <<"c1", "c2", "c3", "c4">>

Keys == {KeyNames[i] : i \in 1..NumKeys}
Vals == {ValNames[i] : i \in 1..NumVals}
Chans == {ChanNames[i] : i \in 1..NumChans}

NoTime == -1
NoExpire == -1
NoData == "nil"
NoKey == "nokey"
NoEntry == [id |-> -1, data |-> NoData, expires_at |-> NoTime]

\* ------------------------------------------------------------------ frames
Simple(s) == [kind |-> "Simple", str |-> s, num |-> 0, elems |-> <<>>]
Error(s) == [kind |-> "Error", str |-> s, num |-> 0, elems |-> <<>>]
Integer(n) == [kind |-> "Integer", str |-> "", num |-> n, elems |-> <<>>]
Bulk(s) == [kind |-> "Bulk", str |-> s, num |-> 0, elems |-> <<>>]
Null == [kind |-> "Null", str |-> "", num |-> 0, elems |-> <<>>]
Array(es) == [kind |-> "Array", str |-> "", num |-> 0, elems |-> es]

\* ---------------------------------------------------------------- commands
NoCmd == [kind |-> "none", key |-> NoKey, val |-> NoData, expire |-> NoExpire, chans |-> <<>>]
GetCmd(k) == [NoCmd EXCEPT !.kind = "get", !.key = k]
SetCmd(k, v, e) == [NoCmd EXCEPT !.kind = "set", !.key = k, !.val = v, !.expire = e]

PublishCmd(ch, m) == [NoCmd EXCEPT !.kind = "publish", !.key = ch, !.val = m]
SubscribeCmd(chs) == [NoCmd EXCEPT !.kind = "subscribe", !.chans = chs]
UnsubscribeCmd(chs) == [NoCmd EXCEPT !.kind = "unsubscribe", !.chans = chs]
PingCmd == [NoCmd EXCEPT !.kind = "ping"]
UnknownCmd(name) == [NoCmd EXCEPT !.kind = "unknown", !.key = name]

\* The messages clients publish.
Msgs == {ValNames[i] : i \in 1..NumMsgs}

\* The channel lists of n up to MaxArgs names, repetitions included.
ChanLists(n) == UNION {[1..m -> Chans] : m \in n..MaxArgs}

\* The commands a client sends at the top level of a pub/sub session.
PubSubCmds ==
    {PublishCmd(ch, m) : ch \in Chans, m \in Msgs}
        \cup {SubscribeCmd(chs) : chs \in ChanLists(1)}
        \cup {UnsubscribeCmd(<<>>), UnsubscribeCmd(<<ChanNames[1]>>)}

\* The commands other than SUBSCRIBE and UNSUBSCRIBE, one of each kind.
OtherCmds ==
    {GetCmd(KeyNames[1]), SetCmd(KeyNames[1], ValNames[1], NoExpire),
     PublishCmd(ChanNames[1], ValNames[1]), PingCmd, UnknownCmd("bogus")}

\* The commands a client sends to a connection that is subscribed.
SubLoopCmds ==
    {SubscribeCmd(chs) : chs \in ChanLists(1)}
        \cup {UnsubscribeCmd(chs) : chs \in ChanLists(0)}
        \cup OtherCmds

StoreCmds ==
    {GetCmd(k) : k \in Keys}
        \cup {SetCmd(k, v, e) : k \in Keys, v \in Vals, e \in {NoExpire} \cup (0..MaxExpire)}

NoLoc == [id |-> -1, when |-> NoTime, notify |-> FALSE, prev |-> NoEntry, res |-> NoData,
          n |-> 0]

VARIABLES
    now,            \* Instant::now()
    entries,        \* State.entries
    expirations,    \* State.expirations, a set of [when, id, key]
    next_id,        \* State.next_id
    shutdown,       \* State.shutdown
    lock,           \* holder of Shared.state, Free when not held
    poisoned,       \* the mutex was held by a task that panicked
    permit,         \* the stored permit of Shared.background_task
    bg_pc,          \* position of purge_expired_tasks
    bg_when,        \* the deadline the purge task sleeps until
    guard_pc,       \* position of DbDropGuard::drop
    pc,             \* position of each connection task
    cmd,            \* the command each connection is executing
    loc,            \* the local variables of Db::set / Db::get of each connection
    out,            \* the frames written to each connection
    ncmd,           \* number of commands the connections have read
    own,            \* history: the value each connection last stored under each key
    expect,         \* history: own[c][key] when the connection's get took the lock
    acq,            \* history: the set that last acquired the lock for each key
    contended,      \* history: a set took the lock while another set on the key waited
    committed,      \* history: data under each key at the last release of the lock
    seen,           \* history: what a get could legally observe when it took the lock
    purged,         \* history: ids of the entries removed by the purge task
    pub_sub,        \* State.pub_sub: the channels that have a broadcast::Sender
    log,            \* the messages sent on each broadcast channel
    rxs,            \* the live broadcast::Receivers, [id, ch, next, conn]
    next_rx,        \* the identity of the next receiver
    subs,           \* subscriptions: the StreamMap of each connection, in Vec order
    subscribe_to,   \* self.channels: the channels still to subscribe to
    newrx,          \* the receiver db.subscribe just returned, 0 if none
    unsub,          \* the channels the unsubscribe loop has yet to remove
    req,            \* history: the channels named by the SUBSCRIBEs of each connection
    resub,          \* history: a SUBSCRIBE arrived inside the subscription loop
    sentTo,         \* history: at each send, the live receivers and the acked connections
    delivered,      \* history: <<receiver, channel, index>> of the messages yielded
    liveAtSend,     \* history: receivers the connections held at the last publish of each
    inloop,         \* history: the commands handle_command took, and the channels
                    \* subscribed and frames written when the last UNSUBSCRIBE came
    sig,            \* the shutdown signal has fired
    buf,            \* frame codec: the bytes the cursor is over
    atoi_build,     \* frame codec: which atoi the build links (sign-aware or not)
    fpc,            \* frame codec: "idle", "start", "checked" or "parsed"
    chk,            \* frame codec: what Frame::check returned and where it left the cursor
    prs,            \* frame codec: what Frame::parse returned and where it left the cursor
    inframe,        \* command parsing: the frame handed to Command::from_frame
    parsed          \* command parsing: what Command::from_frame returned

vars == <<now, entries, expirations, next_id, shutdown, lock, poisoned, permit,
          bg_pc, bg_when, guard_pc, pc, cmd, loc, out, ncmd,
          own, expect, acq, contended, committed, seen, purged,
          pub_sub, log, rxs, next_rx, subs, subscribe_to, newrx, unsub,
          req, resub, sentTo, delivered, liveAtSend, inloop, sig,
          buf, atoi_build, fpc, chk, prs, inframe, parsed>>

frameVars == <<buf, atoi_build, fpc, chk, prs>>
cmdVars == <<inframe, parsed>>
serverVars == <<now, entries, expirations, next_id, shutdown, lock, poisoned, permit,
                bg_pc, bg_when, guard_pc, pc, cmd, loc, out, ncmd,
                own, expect, acq, contended, committed, seen, purged,
                pub_sub, log, rxs, next_rx, subs, subscribe_to, newrx, unsub,
                req, resub, sentTo, delivered, liveAtSend, inloop, sig>>
stateVars == <<entries, expirations, next_id, shutdown>>
histVars == <<own, expect, acq, contended, committed, seen, purged>>
psVars == <<pub_sub, log, rxs, next_rx, subs, subscribe_to, newrx, unsub,
            req, resub, sentTo, delivered, liveAtSend, inloop, sig, frameVars, cmdVars>>
kvVars == <<now, stateVars, permit, bg_pc, bg_when, guard_pc, histVars, frameVars,
            cmdVars>>

NoAcq == [conn |-> 0, id |-> -1, data |-> NoData, expires_at |-> NoTime]
NoSeen == [old |-> NoData, new |-> {}]
NoLive == -1
NoResult == [res |-> "none", pos |-> 0]
NoFrame == [kind |-> "None", str |-> "", num |-> 0, elems |-> <<>>]
NoParse == [res |-> "none", pos |-> 0, frame |-> NoFrame]
NoText == <<>>
Cmd(kind, key, val, expire, chans) ==
    [kind |-> kind, key |-> key, val |-> val, expire |-> expire, chans |-> chans]
NoParsed == [res |-> "none", cmd |-> Cmd("none", NoText, NoText, NoExpire, <<>>)]
NoUnsub == [n |-> 0, before |-> <<>>, base |-> -1]

\* --------------------------------------------------------- pure operations
\* The minimum key of the BTreeMap, ordered by (Instant, u64).
MinExpiration(exps) ==
    CHOOSE e \in exps : \A f \in exps : e.when < f.when \/ (e.when = f.when /\ e.id <= f.id)

\* State::next_expiration
next_expiration(exps) ==
    IF exps = {} THEN NoTime ELSE MinExpiration(exps).when

\* BTreeMap::insert on expirations
ExpInsert(exps, when, id, key) ==
    {e \in exps : ~(e.when = when /\ e.id = id)} \cup {[when |-> when, id |-> id, key |-> key]}

\* BTreeMap::remove on expirations
ExpRemove(exps, when, id) ==
    {e \in exps : ~(e.when = when /\ e.id = id)}

\* Variant of NotifyDecision: notify is false whatever is tracked.
NotifyDecision_Quiet(exps, when) == "quiet"

\* The outcome of `next_expiration().map(|e| e > when).unwrap()`: unwrap
\* panics on None, that is when expirations is empty.
NotifyDecision(exps, when) ==
    IF next_expiration(exps) = NoTime THEN "panic"
    ELSE IF next_expiration(exps) > when THEN "notify" ELSE "quiet"

\* Variant of ClearPrev: the expiration of the replaced entry stays tracked.
ClearPrev_Keep(exps, prev) == exps

\* The expirations map after the previous entry of the key was replaced.
ClearPrev(exps, prev) ==
    IF prev # NoEntry /\ prev.expires_at # NoTime
    THEN ExpRemove(exps, prev.expires_at, prev.id)
    ELSE exps

\* Variant of PurgeLoop: an if let in place of the while let, one entry is
\* removed at most.
PurgeLoop_Once(ents, exps, t) ==
    IF exps = {} THEN [entries |-> ents, expirations |-> exps, next |-> NoTime]
    ELSE LET e == MinExpiration(exps)
             rest == ExpRemove(exps, e.when, e.id)
         IN IF e.when > t THEN [entries |-> ents, expirations |-> exps, next |-> e.when]
            ELSE [entries |-> [ents EXCEPT ![e.key] = NoEntry], expirations |-> rest,
                  next |-> next_expiration(rest)]

\* The while loop of Shared::purge_expired_keys over (entries, expirations).
RECURSIVE PurgeLoop(_, _, _)
PurgeLoop(ents, exps, t) ==
    IF exps = {} THEN [entries |-> ents, expirations |-> exps, next |-> NoTime]
    ELSE LET e == MinExpiration(exps) IN
         IF e.when > t THEN [entries |-> ents, expirations |-> exps, next |-> e.when]
         ELSE PurgeLoop([ents EXCEPT ![e.key] = NoEntry], ExpRemove(exps, e.when, e.id), t)

\* The result of Db::get's `entries.get(key).map(|entry| entry.data.clone())`.
GetData(ents, key) == ents[key].data


\* Variant of EntriesInsert: an existing entry is kept (entry().or_insert()).
EntriesInsert_KeepOld(ents, key, id, value, expires_at) ==
    IF ents[key] # NoEntry THEN ents
    ELSE [ents EXCEPT ![key] = [id |-> id, data |-> value, expires_at |-> expires_at]]

\* HashMap::insert on entries: the entry of the key is replaced.
EntriesInsert(ents, key, id, value, expires_at) ==
    [ents EXCEPT ![key] = [id |-> id, data |-> value, expires_at |-> expires_at]]

\* Variant of SetExpiresAt: a set without expiration stores the current instant.
SetExpiresAt_Now(expire, t) ==
    IF expire = NoExpire THEN t ELSE t + expire

\* The expires_at that Db::set stores in the entry.
SetExpiresAt(expire, t) ==
    IF expire = NoExpire THEN NoTime ELSE t + expire

\* Variant of NextId: the id is handed out and left as it is.
NextId_Same(n) == n

\* state.next_id += 1
NextId(n) == n + 1

\* Variant of CanLock: the state is entered without mutual exclusion.
CanLock_Always(t) == TRUE

\* Mutex::lock returns once no other task holds the mutex.
CanLock(t) == lock = Free

\* -------------------------------------------------------------------- Init
\* State of Db::new: no entry, no expiration, the first id is 0.
InitStore ==
    /\ now = 0
    /\ entries = [k \in Keys |-> NoEntry]
    /\ expirations = {}
    /\ next_id = 0

\* The tasks and connections when the server starts.
InitTasks ==
    /\ shutdown = FALSE
    /\ lock = Free
    /\ poisoned = FALSE
    /\ permit = FALSE
    /\ bg_pc = "loop"
    /\ bg_when = NoTime
    /\ guard_pc = "alive"
    /\ pc = [c \in Conns |-> "idle"]
    /\ cmd = [c \in Conns |-> NoCmd]
    /\ loc = [c \in Conns |-> NoLoc]
    /\ out = [c \in Conns |-> <<>>]
    /\ ncmd = 0
    /\ own = [c \in Conns |-> [k \in Keys |-> NoData]]
    /\ expect = [c \in Conns |-> NoData]
    /\ acq = [k \in Keys |-> NoAcq]
    /\ contended = [k \in Keys |-> FALSE]
    /\ committed = [k \in Keys |-> NoData]
    /\ seen = [c \in Conns |-> NoSeen]
    /\ purged = {}
    /\ pub_sub = {}
    /\ log = [ch \in Chans |-> <<>>]
    /\ rxs = {}
    /\ next_rx = 1
    /\ subs = [c \in Conns |-> <<>>]
    /\ subscribe_to = [c \in Conns |-> <<>>]
    /\ newrx = [c \in Conns |-> 0]
    /\ unsub = [c \in Conns |-> <<>>]
    /\ req = [c \in Conns |-> <<>>]
    /\ resub = [c \in Conns |-> FALSE]
    /\ sentTo = [ch \in Chans |-> <<>>]
    /\ delivered = {}
    /\ liveAtSend = [c \in Conns |-> NoLive]
    /\ inloop = [c \in Conns |-> NoUnsub]
    /\ sig = FALSE

InitServer == InitStore /\ InitTasks

\* The server's specifications leave the codec's cursor idle over no bytes.
InitNoFrame ==
    /\ buf = <<>>
    /\ atoi_build = "unsigned"
    /\ fpc = "idle"
    /\ chk = NoResult
    /\ prs = NoParse
    /\ inframe = NoFrame
    /\ parsed = NoParsed

Init == InitServer /\ InitNoFrame

\* ---------------------------------------------------------------- the clock
\* now is the latest instant that was observed; Instant::now() returns that
\* instant or a later one (the clock is monotonic).
Instants(from) == from..(IF from > MaxTime THEN from ELSE MaxTime)

\* ------------------------------------------------- the connection handler
\* The handler reads the next command of the connection and dispatches it.
HandlerRead(c, cmds, max) ==
    /\ pc[c] = "idle"
    /\ ncmd < max
    /\ \E m \in cmds : cmd' = [cmd EXCEPT ![c] = m]
    /\ pc' = [pc EXCEPT ![c] = "apply"]
    /\ ncmd' = ncmd + 1
    /\ UNCHANGED <<psVars, kvVars, lock, poisoned, loc, out>>

HandlerRun(c) == HandlerRead(c, StoreCmds, MaxCmds)

HandlerRunPubSub(c) == HandlerRead(c, PubSubCmds, MaxPubSubCmds)

\* ------------------------------------------------------------------ Db::get
\* Db::get: lock, read the entry, unlock.
GetDb(c) ==
    /\ pc[c] = "apply"
    /\ cmd[c].kind = "get"
    /\ CanLock(c)
    /\ IF poisoned
       THEN /\ pc' = [pc EXCEPT ![c] = "panicked"]
            /\ cmd' = [cmd EXCEPT ![c] = NoCmd]
            /\ UNCHANGED <<loc, expect, seen>>
       ELSE /\ loc' = [loc EXCEPT ![c].res = GetData(entries, cmd[c].key)]
            /\ cmd' = cmd
            /\ pc' = [pc EXCEPT ![c] = "get_reply"]
            /\ expect' = [expect EXCEPT ![c] = own[c][cmd[c].key]]
            /\ seen' = [seen EXCEPT ![c] =
                 [old |-> committed[cmd[c].key],
                  new |-> {cmd[d].val : d \in {x \in Conns :
                              /\ x # c
                              /\ cmd[x].kind = "set"
                              /\ cmd[x].key = cmd[c].key
                              /\ pc[x] \in {"set_expire", "set_insert", "set_clear"}}}]]
    /\ UNCHANGED <<psVars, now, stateVars, lock, poisoned, permit, bg_pc, bg_when, guard_pc,
                   out, ncmd, own, acq, contended, committed, purged>>

\* Variant of GetResponse: the value is sent as a Simple frame.
GetResponse_Simple(res) == IF res # NoData THEN Simple(res) ELSE Null

\* The response of Get::apply: Bulk(value) if there is an entry, else Null.
GetResponse(res) == IF res # NoData THEN Bulk(res) ELSE Null

\* Get::apply writes the response.
GetReply(c) ==
    /\ pc[c] = "get_reply"
    /\ out' = [out EXCEPT ![c] = Append(@, GetResponse(loc[c].res))]
    /\ pc' = [pc EXCEPT ![c] = "idle"]
    /\ cmd' = [cmd EXCEPT ![c] = NoCmd]
    /\ loc' = [loc EXCEPT ![c] = NoLoc]
    /\ expect' = [expect EXCEPT ![c] = NoData]
    /\ seen' = [seen EXCEPT ![c] = NoSeen]
    /\ UNCHANGED <<psVars, now, stateVars, lock, poisoned, permit, bg_pc, bg_when, guard_pc,
                   ncmd, own, acq, contended, committed, purged>>

\* ------------------------------------------------------------------ Db::set
\* lock().unwrap(), id = next_id, next_id += 1
SetBegin(c) ==
    /\ pc[c] = "apply"
    /\ cmd[c].kind = "set"
    /\ CanLock(c)
    /\ IF poisoned
       THEN /\ pc' = [pc EXCEPT ![c] = "panicked"]
            /\ cmd' = [cmd EXCEPT ![c] = NoCmd]
            /\ UNCHANGED <<lock, next_id, loc, acq, contended>>
       ELSE /\ lock' = c
            /\ cmd' = cmd
            /\ loc' = [loc EXCEPT ![c] = [NoLoc EXCEPT !.id = next_id]]
            /\ next_id' = NextId(next_id)
            /\ pc' = [pc EXCEPT ![c] = "set_expire"]
            /\ acq' = [acq EXCEPT ![cmd[c].key] =
                         [conn |-> c, id |-> next_id, data |-> cmd[c].val,
                          expires_at |-> NoTime]]
            /\ contended' = [contended EXCEPT ![cmd[c].key] =
                         @ \/ \E d \in Conns \ {c} :
                                  /\ pc[d] = "apply"
                                  /\ cmd[d].kind = "set"
                                  /\ cmd[d].key = cmd[c].key]
    /\ UNCHANGED <<psVars, now, entries, expirations, shutdown, poisoned, permit, bg_pc, bg_when,
                   guard_pc, out, ncmd, own, expect, committed, seen, purged>>

\* The computation of (notify, expires_at): with an expiration the deadline is
\* compared with the next expiration and tracked in expirations; the unwrap
\* panics while the mutex is held when expirations is empty.
SetExpire(c) ==
    /\ pc[c] = "set_expire"
    /\ \E t \in (IF cmd[c].expire # NoExpire THEN Instants(now) ELSE {now}) :
       LET key == cmd[c].key
           when == SetExpiresAt(cmd[c].expire, t)
           decision == NotifyDecision(expirations, when)
       IN /\ now' = t
          /\ IF cmd[c].expire # NoExpire /\ decision = "panic"
             THEN /\ poisoned' = TRUE
                  /\ lock' = Free
                  /\ pc' = [pc EXCEPT ![c] = "panicked"]
                  /\ cmd' = [cmd EXCEPT ![c] = NoCmd]
                  /\ loc' = [loc EXCEPT ![c] = NoLoc]
                  /\ UNCHANGED <<expirations, acq>>
             ELSE /\ expirations' = IF cmd[c].expire # NoExpire
                                    THEN ExpInsert(expirations, when, loc[c].id, key)
                                    ELSE expirations
                  /\ loc' = [loc EXCEPT ![c].when = when,
                                        ![c].notify = (cmd[c].expire # NoExpire
                                                         /\ decision = "notify")]
                  /\ acq' = IF acq[key].conn = c /\ acq[key].id = loc[c].id
                            THEN [acq EXCEPT ![key].expires_at = when]
                            ELSE acq
                  /\ pc' = [pc EXCEPT ![c] = "set_insert"]
                  /\ UNCHANGED <<lock, poisoned, cmd>>
    /\ UNCHANGED <<psVars, entries, next_id, shutdown, permit, bg_pc, bg_when, guard_pc,
                   out, ncmd, own, expect, contended, committed, seen, purged>>

\* prev = entries.insert(key, Entry { id, data, expires_at })
SetInsert(c) ==
    /\ pc[c] = "set_insert"
    /\ entries' = EntriesInsert(entries, cmd[c].key, loc[c].id, cmd[c].val, loc[c].when)
    /\ loc' = [loc EXCEPT ![c].prev = entries[cmd[c].key]]
    /\ pc' = [pc EXCEPT ![c] = "set_clear"]
    /\ own' = [d \in Conns |->
                 [own[d] EXCEPT ![cmd[c].key] = IF d = c THEN cmd[c].val ELSE NoData]]
    /\ UNCHANGED <<psVars, now, expirations, next_id, shutdown, lock, poisoned, permit, bg_pc,
                   bg_when, guard_pc, cmd, out, ncmd, expect, acq, contended, committed,
                   seen, purged>>

\* The expiration of the replaced entry is cleared and the mutex is released.
SetClear(c) ==
    /\ pc[c] = "set_clear"
    /\ expirations' = ClearPrev(expirations, loc[c].prev)
    /\ lock' = Free
    /\ pc' = [pc EXCEPT ![c] = "set_notify"]
    /\ committed' = [committed EXCEPT ![cmd[c].key] = cmd[c].val]
    /\ UNCHANGED <<psVars, now, entries, next_id, shutdown, poisoned, permit, bg_pc, bg_when,
                   guard_pc, cmd, loc, out, ncmd, own, expect, acq, contended, seen, purged>>

\* if notify { background_task.notify_one() }
SetNotify(c) ==
    /\ pc[c] = "set_notify"
    /\ permit' = (permit \/ loc[c].notify)
    /\ pc' = [pc EXCEPT ![c] = "set_reply"]
    /\ UNCHANGED <<psVars, now, stateVars, lock, poisoned, bg_pc, bg_when, guard_pc,
                   cmd, loc, out, ncmd, histVars>>

\* Set::apply: the reply is Simple("OK").
SetReply(c) ==
    /\ pc[c] = "set_reply"
    /\ out' = [out EXCEPT ![c] = Append(@, Simple("OK"))]
    /\ pc' = [pc EXCEPT ![c] = "idle"]
    /\ cmd' = [cmd EXCEPT ![c] = NoCmd]
    /\ loc' = [loc EXCEPT ![c] = NoLoc]
    /\ UNCHANGED <<psVars, now, stateVars, lock, poisoned, permit, bg_pc, bg_when, guard_pc,
                   ncmd, histVars>>

\* ------------------------------------------------------ the purge task
\* while !shared.is_shutdown()
BgIsShutdown ==
    /\ bg_pc = "loop"
    /\ CanLock(BgTask)
    /\ bg_pc' = IF poisoned THEN "panicked" ELSE IF shutdown THEN "done" ELSE "purge"
    /\ UNCHANGED <<psVars, now, stateVars, lock, poisoned, permit, bg_when, guard_pc,
                   pc, cmd, loc, out, ncmd, histVars>>

\* shared.purge_expired_keys(): one critical section.
BgPurge ==
    /\ bg_pc = "purge"
    /\ CanLock(BgTask)
    /\ IF poisoned
       THEN /\ bg_pc' = "panicked"
            /\ UNCHANGED <<now, entries, expirations, bg_when, own, acq, committed, purged>>
       ELSE IF shutdown
       THEN /\ bg_pc' = "wait"
            /\ bg_when' = NoTime
            /\ UNCHANGED <<now, entries, expirations, own, acq, committed, purged>>
       ELSE \E t \in Instants(now) :
            LET r == PurgeLoop(entries, expirations, t)
                gone == {k \in Keys : entries[k] # NoEntry /\ r.entries[k] = NoEntry}
            IN /\ now' = t
               /\ entries' = r.entries
               /\ expirations' = r.expirations
               /\ bg_when' = r.next
               /\ bg_pc' = "wait"
               /\ purged' = purged \cup {entries[k].id : k \in gone}
               /\ own' = [d \in Conns |-> [k \in Keys |->
                            IF k \in gone THEN NoData ELSE own[d][k]]]
               /\ acq' = [k \in Keys |-> IF k \in gone THEN NoAcq ELSE acq[k]]
               /\ committed' = [k \in Keys |-> IF k \in gone THEN NoData ELSE committed[k]]
    /\ UNCHANGED <<psVars, next_id, shutdown, lock, poisoned, permit, guard_pc,
                   pc, cmd, loc, out, ncmd, expect, contended, seen>>

\* The wait of the task: select! { sleep_until(when), notified() } when a
\* deadline is pending, notified() alone otherwise.
BgWait ==
    /\ bg_pc = "wait"
    /\ \E branch \in {"timer", "notified"} :
         /\ branch = "timer" => bg_when # NoTime
         /\ branch = "notified" => permit
         /\ permit' = IF branch = "notified" THEN FALSE ELSE permit
         /\ IF branch = "timer"
            THEN \E t \in Instants(IF now > bg_when THEN now ELSE bg_when) : now' = t
            ELSE now' = now
    /\ bg_pc' = "loop"
    /\ bg_when' = NoTime
    /\ UNCHANGED <<psVars, stateVars, lock, poisoned, guard_pc,
                   pc, cmd, loc, out, ncmd, histVars>>

\* ------------------------------------------------------ DbDropGuard::drop
\* Db::shutdown_purge_task: shutdown = true under the mutex.
GuardShutdown ==
    /\ guard_pc = "alive"
    /\ CanLock(Guard)
    /\ IF poisoned
       THEN guard_pc' = "panicked" /\ UNCHANGED shutdown
       ELSE guard_pc' = "notify" /\ shutdown' = TRUE
    /\ UNCHANGED <<psVars, now, entries, expirations, next_id, lock, poisoned, permit, bg_pc,
                   bg_when, pc, cmd, loc, out, ncmd, histVars>>

\* background_task.notify_one() after the mutex is released.
GuardNotify ==
    /\ guard_pc = "notify"
    /\ permit' = TRUE
    /\ guard_pc' = "done"
    /\ UNCHANGED <<psVars, now, stateVars, lock, poisoned, bg_pc, bg_when,
                   pc, cmd, loc, out, ncmd, histVars>>

\* ------------------------------------------------------ broadcast channels
\* broadcast::channel(1024)
Capacity == 1024

\* The live receivers of a channel.
RxOn(rs, ch) == {r \in rs : r.ch = ch}

\* Variant of SendCount: the receivers of every channel are counted.
SendCount_AllChannels(rs, ch) == Cardinality(rs)

\* Sender::send reports the number of receivers of the channel.
SendCount(rs, ch) == Cardinality(RxOn(rs, ch))

\* Sender::send queues the value unless the channel has no receiver.
BroadcastSend(lg, rs, ch, m) ==
    IF SendCount(rs, ch) = 0 THEN lg ELSE [lg EXCEPT ![ch] = Append(@, m)]

\* Db::publish: the count of the send, 0 without sender or without receiver.
PublishCount(ps, rs, ch) ==
    IF ch \in ps THEN SendCount(rs, ch) ELSE 0

\* Variant of PubSubEntry: the map holds the sender of the last channel only.
PubSubEntry_Forget(ps, ch) == {ch}

\* Db::subscribe: state.pub_sub.entry(key), the sender of an occupied entry
\* is kept and a vacant entry receives a new sender.
PubSubEntry(ps, ch) == ps \cup {ch}

\* Variant of NewRxPos: a new receiver starts at the oldest message.
NewRxPos_Oldest(lg) == 1

\* Sender::subscribe and broadcast::channel: a new receiver starts at the tail.
NewRxPos(lg) == Len(lg) + 1

\* Variant of RecvPos: the receiver yields the value before its position again.
RecvPos_Rewind(r, lg) == IF r.next > 1 THEN r.next - 1 ELSE r.next

\* Receiver::recv: a receiver that lagged resumes at the oldest retained value.
RecvPos(r, lg) ==
    IF r.next < Len(lg) - Capacity + 1 THEN Len(lg) - Capacity + 1 ELSE r.next

\* ------------------------------------------------------------- StreamMap
IndexOf(m, ch) ==
    IF \E i \in DOMAIN m : m[i].ch = ch
    THEN CHOOSE i \in DOMAIN m : m[i].ch = ch
    ELSE 0

\* The receiver the map holds for a channel, 0 if none.
RxOf(m, ch) == IF IndexOf(m, ch) = 0 THEN 0 ELSE m[IndexOf(m, ch)].rx

\* Vec::swap_remove
SwapRemove(m, i) ==
    [j \in 1..(Len(m) - 1) |-> IF j = i THEN m[Len(m)] ELSE m[j]]

\* Variant of StreamMapRemove: the stream stays in the map.
StreamMapRemove_Keep(m, ch) == m

\* StreamMap::remove
StreamMapRemove(m, ch) ==
    IF IndexOf(m, ch) = 0 THEN m ELSE SwapRemove(m, IndexOf(m, ch))

\* Variant of StreamMapInsert: the stream is pushed without removing the key.
StreamMapInsert_Push(m, ch, rx) == Append(m, [ch |-> ch, rx |-> rx])

\* StreamMap::insert: the stream of the key is removed, the new one pushed.
StreamMapInsert(m, ch, rx) == Append(StreamMapRemove(m, ch), [ch |-> ch, rx |-> rx])

\* Variant of StreamMapKeys: only the first key is collected.
StreamMapKeys_First(m) == [i \in 1..(IF Len(m) > 0 THEN 1 ELSE 0) |-> m[i].ch]

\* StreamMap::keys
StreamMapKeys(m) == [i \in 1..Len(m) |-> m[i].ch]

\* Variant of DropRx: every stream is dropped, the subscriber's own included.
DropRx_All(rs, ids) == {}

\* The receivers of the connections other than those a connection drops.
DropRx(rs, ids) == {r \in rs : r.id \notin ids}

\* ------------------------------------------------------------ reply frames
make_subscribe_frame(ch, n) == Array(<<Bulk("subscribe"), Bulk(ch), Integer(n)>>)

\* Variant of make_unsubscribe_frame: the ack carries the total before the
\* removal.
make_unsubscribe_frame_OldTotal(ch, n) ==
    Array(<<Bulk("unsubscribe"), Bulk(ch), Integer(n + 1)>>)

make_unsubscribe_frame(ch, n) == Array(<<Bulk("unsubscribe"), Bulk(ch), Integer(n)>>)

make_message_frame(ch, msg) == Array(<<Bulk("message"), Bulk(ch), Bulk(msg)>>)

\* Command::get_name
get_name(m) ==
    CASE m.kind = "get" -> "get"
      [] m.kind = "publish" -> "pub"
      [] m.kind = "set" -> "set"
      [] m.kind = "subscribe" -> "subscribe"
      [] m.kind = "unsubscribe" -> "unsubscribe"
      [] m.kind = "ping" -> "ping"
      [] m.kind = "unknown" -> m.key

\* Variant of UnknownResponse: the command is answered as if it had run.
UnknownResponse_Ok(name) == Simple("OK")

\* Unknown::apply: format!("ERR unknown command '{}'", command_name)
UnknownResponse(name) ==
    Error(CASE name = "get" -> "ERR unknown command 'get'"
            [] name = "pub" -> "ERR unknown command 'pub'"
            [] name = "set" -> "ERR unknown command 'set'"
            [] name = "subscribe" -> "ERR unknown command 'subscribe'"
            [] name = "unsubscribe" -> "ERR unknown command 'unsubscribe'"
            [] name = "ping" -> "ERR unknown command 'ping'"
            [] name = "bogus" -> "ERR unknown command 'bogus'")

\* The response of Publish::apply.
PublishResponse(n) == Integer(n)

\* ------------------------------------------------------- acks on the wire
IsSubAck(f, ch) ==
    /\ f.kind = "Array" /\ Len(f.elems) = 3
    /\ f.elems[1] = Bulk("subscribe") /\ f.elems[2] = Bulk(ch)

IsUnsubAck(f, ch) ==
    /\ f.kind = "Array" /\ Len(f.elems) = 3
    /\ f.elems[1] = Bulk("unsubscribe") /\ f.elems[2] = Bulk(ch)

IsMessage(f, ch) ==
    /\ f.kind = "Array" /\ Len(f.elems) = 3
    /\ f.elems[1] = Bulk("message") /\ f.elems[2] = Bulk(ch)

\* After the first j frames written to it, the client of c holds a subscribe
\* ack for ch that no unsubscribe ack for ch follows.
Acked(c, ch, j) ==
    \E i \in 1..j :
        /\ IsSubAck(out[c][i], ch)
        /\ \A k \in (i + 1)..j : ~IsUnsubAck(out[c][k], ch)

\* -------------------------------------------------------------- Db::publish
\* The subscriptions to a channel as the connections hold them: the streams
\* in their maps and the receivers not yet inserted.
ConnLive(ch) ==
    Cardinality({d \in Conns : RxOf(subs[d], ch) # 0})
        + Cardinality({d \in Conns : newrx[d] # 0 /\ Head(subscribe_to[d]) = ch})

\* Db::publish: lock, send on the sender of the channel, unlock.
PublishDb(c) ==
    /\ pc[c] = "apply"
    /\ cmd[c].kind = "publish"
    /\ CanLock(c)
    /\ IF poisoned
       THEN /\ pc' = [pc EXCEPT ![c] = "panicked"]
            /\ cmd' = [cmd EXCEPT ![c] = NoCmd]
            /\ UNCHANGED <<loc, log, sentTo, liveAtSend>>
       ELSE LET ch == cmd[c].key IN
            /\ loc' = [loc EXCEPT ![c].n = PublishCount(pub_sub, rxs, ch)]
            /\ log' = IF ch \in pub_sub THEN BroadcastSend(log, rxs, ch, cmd[c].val) ELSE log
            /\ sentTo' = IF log'[ch] # log[ch]
                         THEN [sentTo EXCEPT ![ch] =
                                 Append(@, [rx |-> {[id |-> r.id, conn |-> r.conn] :
                                                      r \in RxOn(rxs, ch)},
                                            acked |-> {d \in Conns :
                                                         Acked(d, ch, Len(out[d]))}])]
                         ELSE sentTo
            /\ liveAtSend' = [liveAtSend EXCEPT ![c] = ConnLive(ch)]
            /\ pc' = [pc EXCEPT ![c] = "pub_reply"]
            /\ cmd' = cmd
    /\ UNCHANGED <<kvVars, inloop, sig, lock, poisoned, out, ncmd, pub_sub, rxs, next_rx, subs,
                   subscribe_to, newrx, unsub, req, resub, delivered>>

\* Publish::apply writes Integer(num_subscribers).
PublishReply(c) ==
    /\ pc[c] = "pub_reply"
    /\ out' = [out EXCEPT ![c] = Append(@, PublishResponse(loc[c].n))]
    /\ pc' = [pc EXCEPT ![c] = "idle"]
    /\ cmd' = [cmd EXCEPT ![c] = NoCmd]
    /\ loc' = [loc EXCEPT ![c] = NoLoc]
    /\ UNCHANGED <<kvVars, inloop, sig, lock, poisoned, ncmd, pub_sub, log, rxs, next_rx, subs,
                   subscribe_to, newrx, unsub, req, resub, sentTo, delivered, liveAtSend>>

\* ----------------------------------------------------------- Command::apply
\* The result of Command::apply for the commands that write no reply of
\* their own: Unsubscribe(_) => Err(..), nothing is written to dst.
ApplyResult(m) ==
    IF m.kind = "unsubscribe"
    THEN [ok |-> FALSE, err |-> "Unsubscribe is unsupported in this context", frames |-> <<>>]
    ELSE [ok |-> TRUE, err |-> "", frames |-> <<>>]

\* UNSUBSCRIBE at the top level: apply returns the error, which the handler
\* returns in turn as it does the error of a failed write, and the
\* connection ends.
ApplyUnsubscribe(c) ==
    /\ pc[c] = "apply"
    /\ cmd[c].kind = "unsubscribe"
    /\ out' = [out EXCEPT ![c] = @ \o ApplyResult(cmd[c]).frames]
    /\ pc' = [pc EXCEPT ![c] = IF ApplyResult(cmd[c]).ok THEN "idle" ELSE "failed"]
    /\ cmd' = [cmd EXCEPT ![c] = NoCmd]
    /\ UNCHANGED <<kvVars, inloop, sig, lock, poisoned, loc, ncmd, pub_sub, log, rxs, next_rx,
                   subs, subscribe_to, newrx, unsub, req, resub, sentTo, delivered, liveAtSend>>

\* --------------------------------------------------------- Subscribe::apply
\* Variant of LoopTop: the pending channels are drained only on entry.
LoopTop_NoDrain(pending) == "sub_select"

\* The top of the loop of Subscribe::apply: the pending channels are
\* subscribed to before the select.
LoopTop(pending) == IF pending # <<>> THEN "sub_drain" ELSE "sub_select"

\* Variant of LoopAgain: apply returns once no subscription is left.
LoopAgain_ExitWhenEmpty(m, pending) ==
    IF m = <<>> /\ pending = <<>> THEN "idle" ELSE LoopTop(pending)

\* handle_command returned Ok(()): the loop goes round again, whatever is
\* left in the StreamMap.
LoopAgain(m, pending) == LoopTop(pending)

\* The for loop over self.channels.drain(..) goes on to its next channel.
DrainNext(pending) == IF pending # <<>> THEN "sub_drain" ELSE "sub_select"

\* Subscribe::apply starts with an empty StreamMap and the channels of the command.
SubscribeApply(c) ==
    /\ pc[c] = "apply"
    /\ cmd[c].kind = "subscribe"
    /\ subs' = [subs EXCEPT ![c] = <<>>]
    /\ subscribe_to' = [subscribe_to EXCEPT ![c] = cmd[c].chans]
    /\ req' = [req EXCEPT ![c] = @ \o cmd[c].chans]
    /\ cmd' = [cmd EXCEPT ![c] = NoCmd]
    /\ pc' = [pc EXCEPT ![c] = DrainNext(cmd[c].chans)]
    /\ liveAtSend' = [liveAtSend EXCEPT ![c] = NoLive]
    /\ UNCHANGED <<kvVars, inloop, sig, lock, poisoned, loc, out, ncmd, pub_sub, log, rxs, next_rx,
                   newrx, unsub, resub, sentTo, delivered>>

\* subscribe_to_channel: db.subscribe(channel_name) under the mutex.
SubscribeDb(c) ==
    /\ pc[c] = "sub_drain"
    /\ CanLock(c)
    /\ IF poisoned
       THEN /\ pc' = [pc EXCEPT ![c] = "panicked"]
            /\ rxs' = {r \in rxs : r.conn # c}
            /\ subs' = [subs EXCEPT ![c] = <<>>]
            /\ UNCHANGED <<pub_sub, next_rx, newrx>>
       ELSE LET ch == Head(subscribe_to[c]) IN
            /\ pub_sub' = PubSubEntry(pub_sub, ch)
            /\ rxs' = rxs \cup {[id |-> next_rx, ch |-> ch, next |-> NewRxPos(log[ch]),
                                 conn |-> c]}
            /\ next_rx' = next_rx + 1
            /\ newrx' = [newrx EXCEPT ![c] = next_rx]
            /\ pc' = [pc EXCEPT ![c] = "sub_insert"]
            /\ subs' = subs
    /\ UNCHANGED <<kvVars, inloop, sig, lock, poisoned, cmd, loc, out, ncmd, log, subscribe_to, unsub,
                   req, resub, sentTo, delivered, liveAtSend>>

\* subscribe_to_channel: subscriptions.insert, then the ack with subscriptions.len().
SubscribeAck(c) ==
    /\ pc[c] = "sub_insert"
    /\ LET ch == Head(subscribe_to[c])
           m2 == StreamMapInsert(subs[c], ch, newrx[c])
       IN /\ subs' = [subs EXCEPT ![c] = m2]
          /\ rxs' = DropRx(rxs, {RxOf(subs[c], ch)} \ {RxOf(m2, ch)})
          /\ out' = [out EXCEPT ![c] = Append(@, make_subscribe_frame(ch, Len(m2)))]
          /\ subscribe_to' = [subscribe_to EXCEPT ![c] = Tail(@)]
          /\ newrx' = [newrx EXCEPT ![c] = 0]
          /\ pc' = [pc EXCEPT ![c] = DrainNext(Tail(subscribe_to[c]))]
    /\ UNCHANGED <<kvVars, inloop, sig, lock, poisoned, cmd, loc, ncmd, pub_sub, log, next_rx, unsub,
                   req, resub, sentTo, delivered, liveAtSend>>

\* select arm 1: a subscribed channel yields a message, which is written.
SubMessage(c) ==
    /\ pc[c] = "sub_select"
    /\ \E i \in DOMAIN subs[c] : \E r \in rxs :
         /\ r.id = subs[c][i].rx
         /\ LET p == RecvPos(r, log[r.ch]) IN
            /\ p <= Len(log[r.ch])
            /\ out' = [out EXCEPT ![c] = Append(@, make_message_frame(subs[c][i].ch, log[r.ch][p]))]
            /\ rxs' = (rxs \ {r}) \cup {[r EXCEPT !.next = p + 1]}
            /\ delivered' = delivered \cup {<<r.id, r.ch, p>>}
    /\ pc' = [pc EXCEPT ![c] = LoopTop(subscribe_to[c])]
    /\ UNCHANGED <<kvVars, inloop, sig, lock, poisoned, cmd, loc, ncmd, pub_sub, log, next_rx, subs,
                   subscribe_to, newrx, unsub, req, resub, sentTo, liveAtSend>>

\* select arm 2, handle_command on SUBSCRIBE: the channels join subscribe_to.
HandleSubscribe(c) ==
    /\ pc[c] = "sub_select"
    /\ ncmd < MaxPubSubCmds
    /\ \E m \in {x \in SubLoopCmds : x.kind = "subscribe"} :
         /\ cmd' = [cmd EXCEPT ![c] = m]
         /\ subscribe_to' = [subscribe_to EXCEPT ![c] = @ \o m.chans]
         /\ req' = [req EXCEPT ![c] = @ \o m.chans]
    /\ resub' = [resub EXCEPT ![c] = TRUE]
    /\ ncmd' = ncmd + 1
    /\ pc' = [pc EXCEPT ![c] = LoopTop(subscribe_to'[c])]
    /\ inloop' = [inloop EXCEPT ![c].n = @ + 1]
    /\ UNCHANGED <<kvVars, sig, lock, poisoned, loc, out, pub_sub, log, rxs, next_rx,
                   subs, newrx, unsub, sentTo, delivered, liveAtSend>>

\* select arm 2, handle_command on UNSUBSCRIBE: the channels to remove, all
\* the subscribed ones if none is named.
HandleUnsubscribe(c) ==
    /\ pc[c] = "sub_select"
    /\ ncmd < MaxPubSubCmds
    /\ \E m \in {x \in SubLoopCmds : x.kind = "unsubscribe"} :
         LET list == IF m.chans = <<>> THEN StreamMapKeys(subs[c]) ELSE m.chans IN
         /\ cmd' = [cmd EXCEPT ![c] = m]
         /\ unsub' = [unsub EXCEPT ![c] = list]
         /\ pc' = [pc EXCEPT ![c] = IF list = <<>> THEN LoopAgain(subs[c], subscribe_to[c])
                                    ELSE "unsub_loop"]
    /\ inloop' = [inloop EXCEPT ![c] = [n |-> @.n + 1,
                                         before |-> [i \in DOMAIN subs[c] |-> subs[c][i].ch],
                                         base |-> Len(out[c])]]
    /\ ncmd' = ncmd + 1
    /\ UNCHANGED <<kvVars, sig, lock, poisoned, loc, out, pub_sub, log, rxs, next_rx, subs,
                   subscribe_to, newrx, req, resub, sentTo, delivered, liveAtSend>>

\* One iteration of `for channel_name in unsubscribe.channels`: remove, ack.
UnsubscribeStep(c) ==
    /\ pc[c] = "unsub_loop"
    /\ LET ch == Head(unsub[c])
           m2 == StreamMapRemove(subs[c], ch)
       IN /\ subs' = [subs EXCEPT ![c] = m2]
          /\ rxs' = DropRx(rxs, {RxOf(subs[c], ch)} \ {RxOf(m2, ch)})
          /\ out' = [out EXCEPT ![c] = Append(@, make_unsubscribe_frame(ch, Len(m2)))]
          /\ unsub' = [unsub EXCEPT ![c] = Tail(@)]
          /\ pc' = [pc EXCEPT ![c] = IF Tail(unsub[c]) = <<>>
                                     THEN LoopAgain(m2, subscribe_to[c])
                                     ELSE "unsub_loop"]
    /\ UNCHANGED <<kvVars, inloop, sig, lock, poisoned, cmd, loc, ncmd, pub_sub, log, next_rx,
                   subscribe_to, newrx, req, resub, sentTo, delivered, liveAtSend>>

\* select arm 2, handle_command on any other command: the Unknown reply.
HandleOther(c) ==
    /\ pc[c] = "sub_select"
    /\ ncmd < MaxPubSubCmds
    /\ \E m \in {x \in SubLoopCmds : x.kind \notin {"subscribe", "unsubscribe"}} :
         /\ cmd' = [cmd EXCEPT ![c] = m]
         /\ out' = [out EXCEPT ![c] = Append(@, UnknownResponse(get_name(m)))]
    /\ ncmd' = ncmd + 1
    /\ pc' = [pc EXCEPT ![c] = LoopAgain(subs[c], subscribe_to[c])]
    /\ inloop' = [inloop EXCEPT ![c].n = @ + 1]
    /\ UNCHANGED <<kvVars, sig, lock, poisoned, loc, pub_sub, log, rxs, next_rx, subs,
                   subscribe_to, newrx, unsub, req, resub, sentTo, delivered, liveAtSend>>

\* Variant of SubShutdown: the select has no shutdown branch.
SubShutdown_NoBranch(c) ==
    /\ pc[c] = "sub_select"
    /\ FALSE
    /\ UNCHANGED vars

\* select arm 3: the shutdown signal arrives, apply returns and its StreamMap
\* is dropped.
SubShutdown(c) ==
    /\ pc[c] = "sub_select"
    /\ sig
    /\ pc' = [pc EXCEPT ![c] = "returned"]
    /\ rxs' = {r \in rxs : r.conn # c}
    /\ subs' = [subs EXCEPT ![c] = <<>>]
    /\ UNCHANGED <<kvVars, inloop, sig, lock, poisoned, cmd, loc, out, ncmd, pub_sub, log, next_rx,
                   subscribe_to, newrx, unsub, req, resub, sentTo, delivered, liveAtSend>>

\* select arm 2, Command::from_frame(frame)? fails on a frame that is no
\* well-formed command: apply returns the error and its StreamMap is dropped.
HandleInvalid(c) ==
    /\ pc[c] = "sub_select"
    /\ pc' = [pc EXCEPT ![c] = "failed"]
    /\ rxs' = {r \in rxs : r.conn # c}
    /\ subs' = [subs EXCEPT ![c] = <<>>]
    /\ UNCHANGED <<kvVars, inloop, sig, lock, poisoned, cmd, loc, out, ncmd, pub_sub, log, next_rx,
                   subscribe_to, newrx, unsub, req, resub, sentTo, delivered, liveAtSend>>

\* The listener fires the shutdown signal.
FireShutdown ==
    /\ ~sig
    /\ sig' = TRUE
    /\ UNCHANGED <<kvVars, inloop, lock, poisoned, pc, cmd, loc, out, ncmd, pub_sub, log, rxs,
                   next_rx, subs, subscribe_to, newrx, unsub, req, resub, sentTo, delivered,
                   liveAtSend>>

\* select arm 2, read_frame returns None: the client closed the socket, apply
\* returns and its StreamMap is dropped.
SubClose(c) ==
    /\ pc[c] = "sub_select"
    /\ pc' = [pc EXCEPT ![c] = "returned"]
    /\ rxs' = {r \in rxs : r.conn # c}
    /\ subs' = [subs EXCEPT ![c] = <<>>]
    /\ UNCHANGED <<kvVars, inloop, sig, lock, poisoned, cmd, loc, out, ncmd, pub_sub, log, next_rx,
                   subscribe_to, newrx, unsub, req, resub, sentTo, delivered, liveAtSend>>

\* ----------------------------------------------------------- specification
ConnStep(c) ==
    \/ GetDb(c) \/ GetReply(c)
    \/ SetBegin(c) \/ SetExpire(c) \/ SetInsert(c) \/ SetClear(c)
    \/ SetNotify(c) \/ SetReply(c)

BgStep == BgIsShutdown \/ BgPurge \/ BgWait

Next ==
    \/ \E c \in Conns : HandlerRun(c) \/ ConnStep(c)
    \/ BgStep
    \/ GuardShutdown \/ GuardNotify

Spec == Init /\ [][Next]_vars

PubSubStep(c) ==
    \/ PublishDb(c) \/ PublishReply(c)
    \/ ApplyUnsubscribe(c)
    \/ SubscribeApply(c) \/ SubscribeDb(c) \/ SubscribeAck(c)
    \/ SubMessage(c)
    \/ HandleSubscribe(c) \/ HandleUnsubscribe(c) \/ UnsubscribeStep(c) \/ HandleOther(c)
    \/ HandleInvalid(c) \/ SubClose(c) \/ SubShutdown(c)

NextPubSub == (\E c \in Conns : HandlerRunPubSub(c) \/ PubSubStep(c)) \/ FireShutdown

\* The connections publish and subscribe; the key/value store is left alone.
SpecPubSub == Init /\ [][NextPubSub]_vars

\* The first connection subscribes, the others publish.
HandlerRunSubscriber(c) ==
    HandlerRead(c, {m \in PubSubCmds : IF c = 1 THEN m.kind = "subscribe"
                                                  ELSE m.kind # "subscribe"},
                MaxPubSubCmds)

NextSubscriber ==
    (\E c \in Conns : HandlerRunSubscriber(c) \/ PubSubStep(c)) \/ FireShutdown

\* A connection that is inside subscribe_to_channel or the unsubscribe loop
\* goes on, and select! picks its branch at random among the ready ones, so a
\* shutdown branch that stays ready is taken.
SpecSubscriberFair ==
    /\ Init /\ [][NextSubscriber]_vars
    /\ \A c \in Conns :
          /\ WF_vars(SubscribeDb(c) \/ SubscribeAck(c) \/ UnsubscribeStep(c))
          /\ SF_vars(SubShutdown(c))

\* The runtime schedules every task that can run, a waiting lock() returns
\* once the mutex is free, and the timer of the purge task fires.  Nothing
\* obliges a client to send a command or the server to drop the guard.
SpecFair ==
    /\ Init
    /\ [][Next]_vars
    /\ WF_vars(BgStep)
    /\ \A c \in Conns : WF_vars(ConnStep(c))

\* ------------------------------------------------------------------ claims
\* A connection is inside a call of Db::set on the key (called, not returned).
InSet(c, k) ==
    /\ cmd[c].kind = "set"
    /\ cmd[c].key = k
    /\ pc[c] \in {"apply", "set_expire", "set_insert", "set_clear", "set_notify"}

C2_ExpiringEntryPurged ==
    \A c \in Conns : \A k \in Keys : \A i \in 0..MaxCmds :
        (/\ pc[c] = "set_expire"
         /\ cmd[c].key = k
         /\ cmd[c].expire # NoExpire
         /\ loc[c].id = i
         /\ guard_pc = "alive")
            ~> (\/ i \in purged /\ entries[k].id # i
                \/ acq[k].id > i
                \/ guard_pc # "alive")

\* C3: a get by the task whose set was the last to store the key (no other
\* set to the key, no purge of it since) returns the value of that set and
\* answers Bulk(value); a get of a key without entry answers Null.
C3_GetObservesOwnSet ==
    \A c \in Conns :
        pc[c] = "get_reply" =>
            /\ expect[c] # NoData =>
                   /\ loc[c].res = expect[c]
                   /\ GetResponse(loc[c].res) = Bulk(expect[c])
            /\ (seen[c].old = NoData /\ seen[c].new = {}) =>
                   GetResponse(loc[c].res) = Null

\* C3 witness: a get that follows a set of the same task to the same key.
C3_Witness ==
    \E c \in Conns :
        /\ pc[c] = "get_reply"
        /\ expect[c] # NoData
        /\ loc[c].res = expect[c]

\* C4: once every set on a key has returned, the entry of the key holds the
\* value, id and deadline of the set that acquired the mutex last, and
\* expirations holds no mapping for the key from any other set.
C4_LastLockerWins ==
    \A k \in Keys :
        (/\ acq[k].conn # 0
         /\ pc[acq[k].conn] # "panicked"
         /\ \A c \in Conns : ~InSet(c, k))
            => /\ entries[k] = [id |-> acq[k].id, data |-> acq[k].data,
                                expires_at |-> acq[k].expires_at]
               /\ \A e \in expirations :
                    e.key = k => (e.id = acq[k].id /\ e.when = acq[k].expires_at)

\* C4 witness: two sets on one key overlapped (one took the mutex while the
\* other waited for it) and both have returned.
C4_Witness ==
    \E k \in Keys :
        /\ contended[k]
        /\ ~poisoned
        /\ \A c \in Conns : pc[c] = "idle"
        /\ entries[k].id = acq[k].id
        /\ entries[k].id >= 1

\* C5: a get of a key that has an entry returns the value stored by the last
\* completed set or the value of a set that is replacing it, never none.
C5_ReplacementAtomic ==
    \A c \in Conns :
        (pc[c] = "get_reply" /\ seen[c].old # NoData)
            => /\ loc[c].res # NoData
               /\ loc[c].res \in {seen[c].old} \cup seen[c].new

\* C5 witness: a get returned a value while another connection is inside a
\* set on the same key, which already has an entry.
C5_Witness ==
    \E c \in Conns : \E d \in Conns \ {c} :
        /\ pc[c] = "get_reply"
        /\ seen[c].old # NoData
        /\ loc[c].res # NoData
        /\ cmd[d].kind = "set"
        /\ cmd[d].key = cmd[c].key
        /\ pc[d] \in {"apply", "set_notify"}


\* ------------------------------------------------------------------ pub/sub
Range(q) == {q[i] : i \in DOMAIN q}

\* The channels the client of c holds an ack for after j frames.
AckedSet(c, j) == {ch \in Chans : Acked(c, ch, j)}

\* The channels of the subscribe acks written to c, in the order written.
SubAckChans(c) ==
    LET acks == SelectSeq(out[c], LAMBDA f : \E ch \in Chans : IsSubAck(f, ch))
    IN [i \in DOMAIN acks |-> acks[i].elems[2].str]

\* C6: publish returns the number of receivers that are live on the channel
\* when it sends under the lock, which is the number of receivers the
\* connections hold for it at that moment; it returns 0 for a channel nobody
\* ever subscribed to and for one whose receivers were all dropped; the reply
\* written by PUBLISH is the Integer of that number.
C6_PublishCountsLiveReceivers ==
    \A c \in Conns :
        /\ pc[c] = "pub_reply" =>
              /\ loc[c].n = liveAtSend[c]
              /\ cmd[c].key \notin pub_sub => loc[c].n = 0
        /\ (pc[c] = "idle" /\ liveAtSend[c] # NoLive) =>
              /\ out[c] # <<>>
              /\ out[c][Len(out[c])] = Integer(liveAtSend[c])

\* A publish answered 1 earlier, and now a publish on a channel that carried a
\* message before finds every receiver dropped and returns 0.
C6_Witness ==
    \E c \in Conns :
        /\ pc[c] = "pub_reply"
        /\ loc[c].n = 0
        /\ liveAtSend[c] = 0
        /\ log[cmd[c].key] # <<>>
        /\ Integer(1) \in Range(out[c])

\* C7: a message is queued for exactly the receivers that exist on its
\* channel when publish holds the lock: a receiver only ever yields messages
\* that were sent while it existed, a receiver created after a send starts
\* past that message, and a receiver that existed at the send has yielded the
\* message or still has it queued.
C7_SentToReceiversAtSend ==
    /\ \A ch \in Chans : Len(sentTo[ch]) = Len(log[ch])
    /\ \A d \in delivered : \E e \in sentTo[d[2]][d[3]].rx : e.id = d[1]
    /\ \A r \in rxs : \A p \in DOMAIN log[r.ch] :
          IF \E e \in sentTo[r.ch][p].rx : e.id = r.id
          THEN r.next <= p \/ <<r.id, r.ch, p>> \in delivered
          ELSE r.next > p

\* A live receiver was created after a message of its channel was sent, and
\* that message was yielded by a receiver that existed at the send.
C7_Witness ==
    \E r \in rxs : \E p \in DOMAIN log[r.ch] :
        /\ \A e \in sentTo[r.ch][p].rx : e.id # r.id
        /\ \E d \in delivered : d[2] = r.ch /\ d[3] = p

\* C8: every message frame written to a connection is for a channel the
\* connection is subscribed to at the write: a subscribe ack for the channel
\* precedes it and no unsubscribe ack for the channel lies between the two.
C8_NoMessageAfterUnsubscribeAck ==
    \A c \in Conns : \A j \in DOMAIN out[c] : \A ch \in Chans :
        IsMessage(out[c][j], ch) => Acked(c, ch, j - 1)

\* The unsubscribe ack of a channel was just written while a message sent to
\* the receiver of the connection was still queued, and the connection is
\* back at the select with another subscription.
C8_Witness ==
    \E c \in Conns : \E ch \in Chans :
        /\ pc[c] = "sub_select"
        /\ subs[c] # <<>>
        /\ out[c] # <<>>
        /\ IsUnsubAck(out[c][Len(out[c])], ch)
        /\ \E p \in DOMAIN sentTo[ch] : \E e \in sentTo[ch][p].rx :
              /\ e.conn = c
              /\ <<e.id, ch, p>> \notin delivered
              /\ \A r \in rxs : r.id # e.id

\* C9: the count of a subscribe ack is the number of distinct channels the
\* connection is subscribed to once the channel of the ack is added, and the
\* subscribe acks follow the channels named by the SUBSCRIBEs one for one and
\* in order, repeated and already subscribed channels included.
C9_SubscribeAckCount ==
    \A c \in Conns :
        /\ \A j \in DOMAIN out[c] : \A ch \in Chans :
              IsSubAck(out[c][j], ch) =>
                  out[c][j].elems[3] = Integer(Cardinality(AckedSet(c, j)))
        /\ Len(SubAckChans(c)) + Len(subscribe_to[c]) = Len(req[c])
        /\ \A i \in DOMAIN SubAckChans(c) : SubAckChans(c)[i] = req[c][i]

\* A subscribe ack was written for a channel the connection was subscribed to
\* already.
C9_Witness ==
    \E c \in Conns : \E j \in DOMAIN out[c] : \E ch \in Chans :
        /\ IsSubAck(out[c][j], ch)
        /\ Acked(c, ch, j - 1)
        /\ Len(req[c]) = Len(SubAckChans(c))

\* C10: whenever the subscription loop waits in its select, no channel of a
\* SUBSCRIBE is left pending: each is known to the store and acked, every
\* channel the client holds an ack for has a live receiver in the map of the
\* connection, and a message sent while the client held the ack of its
\* channel went to a receiver of the connection, which yielded it, still has
\* it queued, or was dropped since.
C10_SubscribeInLoopBeforeWait ==
    /\ \A c \in Conns : pc[c] = "sub_select" =>
          /\ subscribe_to[c] = <<>>
          /\ Range(req[c]) \subseteq pub_sub
          /\ \A ch \in AckedSet(c, Len(out[c])) :
                \E r \in rxs : r.conn = c /\ r.ch = ch /\ RxOf(subs[c], ch) = r.id
    /\ \A ch \in Chans : \A p \in DOMAIN sentTo[ch] : \A c \in sentTo[ch][p].acked :
          \E e \in sentTo[ch][p].rx :
              /\ e.conn = c
              /\ \/ <<e.id, ch, p>> \in delivered
                 \/ \E r \in rxs : r.id = e.id /\ r.next <= p
                 \/ \A r \in rxs : r.id # e.id

\* A connection subscribed to one channel, was sent a SUBSCRIBE for another
\* inside the loop, and was written a message of that second channel.
C10_Witness ==
    \E c \in Conns :
        /\ pc[c] = "sub_select"
        /\ resub[c]
        /\ Len(req[c]) = 2
        /\ req[c][1] # req[c][2]
        /\ \E j \in DOMAIN out[c] : IsMessage(out[c][j], req[c][2])

\* ------------------------------------------------------------ subscription loop
\* The program points of Subscribe::apply.
LoopPcs == {"sub_drain", "sub_insert", "sub_select", "unsub_loop"}

\* The last command handle_command took from c is an UNSUBSCRIBE.
InUnsub(c) == cmd[c].kind = "unsubscribe" /\ inloop[c].base >= 0

\* The channels the last UNSUBSCRIBE of c removes, in order.
UnsubNamed(c) == IF cmd[c].chans = <<>> THEN inloop[c].before ELSE cmd[c].chans

\* The number of those channels the loop has been through.
UnsubDone(c) == Len(UnsubNamed(c)) - Len(unsub[c])

\* The unsubscribe acks written to c for its last UNSUBSCRIBE.
UnsubAcks(c) ==
    {j \in DOMAIN out[c] : j > inloop[c].base /\ \E ch \in Chans : IsUnsubAck(out[c][j], ch)}

\* C11 as stated: the number of unsubscribe acks an UNSUBSCRIBE emits is the
\* number of channels it removed from the subscription set.
C11_AcksEqualRemoved ==
    \A c \in Conns : InUnsub(c) =>
        Cardinality(UnsubAcks(c)) =
            Cardinality(Range(inloop[c].before)
                            \cap {UnsubNamed(c)[i] : i \in 1..UnsubDone(c)})

\* C11 amended: an UNSUBSCRIBE emits exactly one unsubscribe ack for each
\* channel it names (for each subscribed channel when it names none), in
\* that order; each carries the number of channels left subscribed once the
\* channel is removed, also when the channel was not subscribed or is named
\* twice, in which case nothing is removed and the count does not change.
C11_OneAckPerNamedChannel ==
    \A c \in Conns : InUnsub(c) =>
        LET named == UnsubNamed(c)
            k == UnsubDone(c)
            base == inloop[c].base
        IN /\ Len(out[c]) >= base + k
           /\ \A i \in 1..k :
                 out[c][base + i] =
                     Array(<<Bulk("unsubscribe"), Bulk(named[i]),
                             Integer(Cardinality(Range(inloop[c].before)
                                                     \ {named[j] : j \in 1..i}))>>)
           /\ Cardinality(UnsubAcks(c)) = k

\* An UNSUBSCRIBE that named a subscribed channel and one that was not
\* subscribed has been through its channels.
C11_Witness ==
    \E c \in Conns :
        /\ InUnsub(c)
        /\ pc[c] = "sub_select"
        /\ unsub[c] = <<>>
        /\ \E i \in DOMAIN cmd[c].chans : cmd[c].chans[i] \in Range(inloop[c].before)
        /\ \E i \in DOMAIN cmd[c].chans : cmd[c].chans[i] \notin Range(inloop[c].before)

\* C12: an UNSUBSCRIBE without channels that arrives while n channels are
\* subscribed writes n unsubscribe acks, one for each of the n channels, with
\* the counts n-1, n-2, ..., 0, and leaves the subscription set empty.
C12_UnsubscribeAll ==
    \A c \in Conns : (InUnsub(c) /\ cmd[c].chans = <<>>) =>
        LET n == Len(inloop[c].before)
            k == n - Len(unsub[c])
            base == inloop[c].base
        IN /\ Len(out[c]) >= base + k
           /\ \A i \in 1..k :
                 /\ \E ch \in Range(inloop[c].before) : IsUnsubAck(out[c][base + i], ch)
                 /\ out[c][base + i].elems[3] = Integer(n - i)
           /\ Cardinality({out[c][base + i].elems[2] : i \in 1..k}) = k
           /\ pc[c] # "unsub_loop" =>
                 /\ k = n
                 /\ Cardinality(UnsubAcks(c)) = n
                 /\ Len(out[c]) = base + n => subs[c] = <<>> /\ AckedSet(c, Len(out[c])) = {}

\* An UNSUBSCRIBE without channels found two channels subscribed and is done.
C12_Witness ==
    \E c \in Conns :
        /\ InUnsub(c)
        /\ cmd[c].chans = <<>>
        /\ Len(inloop[c].before) = 2
        /\ pc[c] = "sub_select"
        /\ Len(out[c]) = inloop[c].base + 2

\* The text of the UNKNOWN reply to a command.
UnknownText(m) ==
    CASE m.kind = "get" -> "ERR unknown command 'get'"
      [] m.kind = "set" -> "ERR unknown command 'set'"
      [] m.kind = "publish" -> "ERR unknown command 'pub'"
      [] m.kind = "ping" -> "ERR unknown command 'ping'"
      [] m.kind = "unknown" -> "ERR unknown command 'bogus'"
      [] OTHER -> "none"

C14_StaysInSubscriptionLoop ==
    \A c \in Conns : req[c] # <<>> =>
        pc[c] \in LoopPcs \cup {"returned", "failed", "panicked"}

\* A connection unsubscribed from all its channels and, with an empty
\* subscription set, went on to answer another command inside the loop.
C14_Witness ==
    \E c \in Conns :
        /\ pc[c] = "sub_select"
        /\ subs[c] = <<>>
        /\ inloop[c].base >= 0
        /\ Cardinality(UnsubAcks(c)) > 0
        /\ cmd[c].kind \notin {"subscribe", "unsubscribe", "none"}
        /\ out[c][Len(out[c])].kind = "Error"

\* C15: once the shutdown signal has fired, a connection that is in the
\* subscription loop leaves it; and a connection that has a write to do
\* (the ack of subscribe_to_channel, an unsubscribe ack) does the write
\* before anything else, it does not return in its place.
C15_ShutdownEndsLoop ==
    /\ \A c \in Conns : (sig /\ pc[c] \in LoopPcs) ~> (pc[c] \notin LoopPcs)
    /\ [][\A c \in Conns :
            (pc[c] \in {"sub_insert", "unsub_loop"}
                /\ <<pc[c], out[c], unsub[c]>>' # <<pc[c], out[c], unsub[c]>>) =>
               /\ Len(out'[c]) = Len(out[c]) + 1
               /\ pc'[c] \in LoopPcs]_vars

\* The signal fired while the connection had an unsubscribe ack to write;
\* the connection wrote it and then returned.
C15_Witness ==
    \E c \in Conns :
        /\ sig
        /\ pc[c] = "returned"
        /\ InUnsub(c)
        /\ out[c] # <<>>
        /\ \E ch \in Chans : IsUnsubAck(out[c][Len(out[c])], ch)

C17_PurgeTaskObservesShutdown ==
    (guard_pc = "done") ~> (bg_pc = "done")

\* ------------------------------------------------------------ frame codec
\* A buffer is a sequence of bytes; a byte is named by a string. CR and LF are
\* the two bytes of the line terminator, "ff" a byte that is not valid UTF-8,
\* "x" a letter. The cursor position counts the bytes consumed (0-based, as
\* Cursor::position), so the byte at Rust index i is b[i + 1].
MaxBuf == 5

CR == "CR"
LF == "LF"
NoNumber == -1
DigitOf == [d \in {"0", "1", "2", "3", "4", "5", "6", "7", "8", "9"} |->
              CASE d = "0" -> 0 [] d = "1" -> 1 [] d = "2" -> 2 [] d = "3" -> 3
                [] d = "4" -> 4 [] d = "5" -> 5 [] d = "6" -> 6 [] d = "7" -> 7
                [] d = "8" -> 8 [] d = "9" -> 9]
TypeBytes == {"+", "-", ":", "$", "*"}
Tokens == {<<"+">>, <<"-">>, <<":">>, <<"$">>, <<"*">>, <<"0">>, <<"1">>,
           <<"x">>, <<"ff">>, <<CR, LF>>}

RECURSIVE Flatten(_)
Flatten(ts) == IF ts = <<>> THEN <<>> ELSE Head(ts) \o Flatten(Tail(ts))

\* The buffers of up to n tokens.
Buffers(n) == {Flatten(ts) : ts \in UNION {[1..m -> Tokens] : m \in 0..n}}

remaining(b, pos) == Len(b) - pos

Failed(kind, pos) == [res |-> kind, pos |-> pos]
Done(pos) == [res |-> "ok", pos |-> pos]

\* Err(Incomplete) on an exhausted cursor, else the byte here; get_u8 also
\* advances by one.
peek_u8(b, pos) ==
    IF remaining(b, pos) = 0 THEN [res |-> "incomplete", pos |-> pos, byte |-> ""]
    ELSE [res |-> "ok", pos |-> pos, byte |-> b[pos + 1]]

get_u8(b, pos) ==
    IF remaining(b, pos) = 0 THEN [res |-> "incomplete", pos |-> pos, byte |-> ""]
    ELSE [res |-> "ok", pos |-> pos + 1, byte |-> b[pos + 1]]

skip(b, pos, n) ==
    IF remaining(b, pos) < n THEN Failed("incomplete", pos) ELSE Done(pos + n)

\* Scans start..end (end excluded, end = len - 1) for CR LF; the line is the
\* bytes before it and the cursor moves past the LF.
get_line(b, pos) ==
    LET end == Len(b) - 1
        hits == {i \in pos..(end - 1) : b[i + 1] = CR /\ b[i + 2] = LF}
    IN  IF hits = {} THEN [res |-> "incomplete", pos |-> pos, line |-> <<>>]
        ELSE LET i == CHOOSE h \in hits : \A g \in hits : h <= g
             IN  [res |-> "ok", pos |-> i + 2, line |-> SubSeq(b, pos + 1, i)]

\* atoi reads the decimal digits the text starts with and stops at the first
\* other byte; it yields nothing when it read no digit. A sign-aware build
\* takes one leading sign first, and a negative value does not fit a u64.
RECURSIVE from_radix_10(_, _, _)
from_radix_10(line, i, n) ==
    IF i <= Len(line) /\ line[i] \in DOMAIN DigitOf
    THEN from_radix_10(line, i + 1, n * 10 + DigitOf[line[i]])
    ELSE [n |-> n, next |-> i]

atoi(line, build) ==
    LET sign == build = "signed" /\ Len(line) > 0 /\ line[1] \in {"+", "-"}
        first == IF sign THEN 2 ELSE 1
        r == from_radix_10(line, first, 0)
    IN  IF r.next = first THEN NoNumber
        ELSE IF sign /\ line[1] = "-" /\ r.n > 0 THEN NoNumber
        ELSE r.n

get_decimal(b, pos, build) ==
    LET l == get_line(b, pos)
        n == atoi(l.line, build)
    IN  IF l.res # "ok" THEN [res |-> l.res, pos |-> l.pos, num |-> NoNumber]
        ELSE IF n = NoNumber THEN [res |-> "protocol", pos |-> l.pos, num |-> NoNumber]
        ELSE [res |-> "ok", pos |-> l.pos, num |-> n]

\* String::from_utf8 of a line.
from_utf8(line) == \A i \in DOMAIN line : line[i] # "ff"

\* Frame::check: where the cursor ends and with which result.
RECURSIVE check(_, _, _)
RECURSIVE check_elems(_, _, _, _)
check(b, pos, build) ==
    LET t == get_u8(b, pos)
    IN  IF t.res # "ok" THEN Failed(t.res, t.pos)
        ELSE IF t.byte \in {"+", "-"} THEN
            LET l == get_line(b, t.pos) IN Failed(l.res, l.pos)
        ELSE IF t.byte = ":" THEN
            LET d == get_decimal(b, t.pos, build) IN Failed(d.res, d.pos)
        ELSE IF t.byte = "$" THEN
            LET p == peek_u8(b, t.pos)
            IN  IF p.res # "ok" THEN Failed(p.res, p.pos)
                ELSE IF p.byte = "-" THEN skip(b, t.pos, 4)
                ELSE LET d == get_decimal(b, t.pos, build)
                     IN  IF d.res # "ok" THEN Failed(d.res, d.pos)
                         ELSE skip(b, d.pos, d.num + 2)
        ELSE IF t.byte = "*" THEN
            LET d == get_decimal(b, t.pos, build)
            IN  IF d.res # "ok" THEN Failed(d.res, d.pos)
                ELSE check_elems(b, d.pos, build, d.num)
        ELSE Failed("protocol", t.pos)

\* Variant of check_elems: only the first element is checked.
check_elems_First(b, pos, build, n) ==
    IF n = 0 THEN Done(pos) ELSE check(b, pos, build)

check_elems_Rewind(b, pos, build, n) ==
    IF n = 0 THEN Done(0)
    ELSE LET r == check(b, pos, build)
         IN  IF r.res # "ok" THEN r ELSE check_elems(b, r.pos, build, n - 1)

check_elems(b, pos, build, n) ==
    IF n = 0 THEN Done(pos)
    ELSE LET r == check(b, pos, build)
         IN  IF r.res # "ok" THEN r ELSE check_elems(b, r.pos, build, n - 1)

\* Frame::parse: the same walk, materialising the frame. On an unknown type
\* byte it reaches unimplemented!(), which panics.
ParseFailed(kind, pos) == [res |-> kind, pos |-> pos, frame |-> NoFrame]
Parsed(pos, f) == [res |-> "ok", pos |-> pos, frame |-> f]

RECURSIVE parse(_, _, _)
RECURSIVE parse_elems(_, _, _, _, _)
parse(b, pos, build) ==
    LET t == get_u8(b, pos)
    IN  IF t.res # "ok" THEN ParseFailed(t.res, t.pos)
        ELSE IF t.byte \in {"+", "-"} THEN
            LET l == get_line(b, t.pos)
            IN  IF l.res # "ok" THEN ParseFailed(l.res, l.pos)
                ELSE IF ~from_utf8(l.line) THEN ParseFailed("protocol", l.pos)
                ELSE Parsed(l.pos, IF t.byte = "+" THEN Simple(l.line) ELSE Error(l.line))
        ELSE IF t.byte = ":" THEN
            LET d == get_decimal(b, t.pos, build)
            IN  IF d.res # "ok" THEN ParseFailed(d.res, d.pos)
                ELSE Parsed(d.pos, Integer(d.num))
        ELSE IF t.byte = "$" THEN
            LET p == peek_u8(b, t.pos)
            IN  IF p.res # "ok" THEN ParseFailed(p.res, p.pos)
                ELSE IF p.byte = "-" THEN
                    LET l == get_line(b, t.pos)
                    IN  IF l.res # "ok" THEN ParseFailed(l.res, l.pos)
                        ELSE IF l.line # <<"-", "1">> THEN ParseFailed("protocol", l.pos)
                        ELSE Parsed(l.pos, Null)
                ELSE LET d == get_decimal(b, t.pos, build)
                     IN  IF d.res # "ok" THEN ParseFailed(d.res, d.pos)
                         ELSE IF remaining(b, d.pos) < d.num + 2
                              THEN ParseFailed("incomplete", d.pos)
                         ELSE Parsed(d.pos + d.num + 2,
                                     Bulk(SubSeq(b, d.pos + 1, d.pos + d.num)))
        ELSE IF t.byte = "*" THEN
            LET d == get_decimal(b, t.pos, build)
            IN  IF d.res # "ok" THEN ParseFailed(d.res, d.pos)
                ELSE parse_elems(b, d.pos, build, d.num, <<>>)
        ELSE ParseFailed("panic", t.pos)

parse_elems(b, pos, build, n, acc) ==
    IF n = 0 THEN Parsed(pos, Array(acc))
    ELSE LET r == parse(b, pos, build)
         IN  IF r.res # "ok" THEN r
             ELSE parse_elems(b, r.pos, build, n - 1, Append(acc, r.frame))

\* The codec on its own: a buffer arrives, the caller runs Frame::check from
\* the start of the buffer, resets the cursor and runs Frame::parse.
InitFrame ==
    /\ InitServer
    /\ buf \in Buffers(MaxBuf)
    /\ atoi_build \in {"unsigned", "signed"}
    /\ fpc = "start"
    /\ chk = NoResult
    /\ prs = NoParse
    /\ inframe = NoFrame
    /\ parsed = NoParsed

DoCheck ==
    /\ fpc = "start"
    /\ chk' = check(buf, 0, atoi_build)
    /\ fpc' = "checked"
    /\ UNCHANGED <<buf, atoi_build, prs, cmdVars>>
    /\ UNCHANGED serverVars

DoParse ==
    /\ fpc = "checked"
    /\ prs' = parse(buf, 0, atoi_build)
    /\ fpc' = "parsed"
    /\ UNCHANGED <<buf, atoi_build, chk, cmdVars>>
    /\ UNCHANGED serverVars

NextFrame == DoCheck \/ DoParse

SpecFrame == InitFrame /\ [][NextFrame]_vars

\* C18: on every buffer, Frame::check and then Frame::parse from the same start
\* position either both succeed and advance the cursor by the same number of
\* bytes, or both fail with the same kind of error; check never succeeds where
\* parse fails with Incomplete.
C18_CheckParseAgree ==
    fpc = "parsed" =>
        /\ \/ chk.res = "ok" /\ prs.res = "ok" /\ chk.pos = prs.pos
           \/ chk.res \in {"incomplete", "protocol"} /\ prs.res = chk.res
        /\ ~(chk.res = "ok" /\ prs.res = "incomplete")

\* What the wire format asks of a buffer read from pos: "ok" with the end of
\* the frame, "incomplete" when the bytes present are the beginning of a frame
\* that ends past the buffer, "protocol" on an unknown type byte or on a length
\* line that is not a decimal number (the null marker $-1 apart).
IsDecimal(line) == line # <<>> /\ \A i \in DOMAIN line : line[i] \in DOMAIN DigitOf

RECURSIVE Wire(_, _)
RECURSIVE WireElems(_, _, _)
Wire(b, pos) ==
    IF remaining(b, pos) = 0 THEN Failed("incomplete", pos)
    ELSE LET t == b[pos + 1]
             l == get_line(b, pos + 1)
             n == from_radix_10(l.line, 1, 0).n
         IN  IF t \notin TypeBytes THEN Failed("protocol", pos)
             ELSE IF l.res # "ok" THEN Failed("incomplete", pos)
             ELSE IF t \in {"+", "-"} THEN Done(l.pos)
             ELSE IF t = "$" /\ l.line = <<"-", "1">> THEN Done(l.pos)
             ELSE IF ~IsDecimal(l.line) THEN Failed("protocol", pos)
             ELSE IF t = ":" THEN Done(l.pos)
             ELSE IF t = "$" THEN skip(b, l.pos, n + 2)
             ELSE WireElems(b, l.pos, n)

WireElems(b, pos, n) ==
    IF n = 0 THEN Done(pos)
    ELSE LET r == Wire(b, pos)
         IN  IF r.res # "ok" THEN r ELSE WireElems(b, r.pos, n - 1)

\* C19: Frame::check returns Incomplete whenever completing the frame needs
\* bytes past the end of the buffer, and a protocol error whenever the frame
\* starts with an unknown type byte or has a malformed length field, a $-
\* prefix that is not the null marker included.
C19_CheckIncompleteOrProtocol ==
    fpc # "start" =>
        /\ Wire(buf, 0).res = "incomplete" => chk.res = "incomplete"
        /\ Wire(buf, 0).res = "protocol" => chk.res = "protocol"

\* C20: Frame::parse on a buffer whose frame starts with an unrecognized type
\* byte fails with a protocol error value; it does not abort or panic.
C20_ParseUnknownTypeIsProtocolError ==
    fpc = "parsed" /\ buf # <<>> /\ buf[1] \notin TypeBytes =>
        prs.res = "protocol"

\* C21: decoding a buffer (Frame::check, then Frame::parse where check
\* succeeded) ends with Incomplete, with an error, or with success after
\* advancing the cursor by at least one byte and never past the end of the
\* buffer; an array of length 0 and an array that declares more elements than
\* the buffer holds are no exception.
Outcomes == {"ok", "incomplete", "protocol"}

MaxTokens == 5

Uppers == <<"A", "B", "C", "D", "E", "F", "G", "H", "I", "J", "K", "L", "M",
            "N", "O", "P", "Q", "R", "S", "T", "U", "V", "W", "X", "Y", "Z">>
Lowers == <<"a", "b", "c", "d", "e", "f", "g", "h", "i", "j", "k", "l", "m",
            "n", "o", "p", "q", "r", "s", "t", "u", "v", "w", "x", "y", "z">>

LetterCase(ch, from, to) ==
    IF \E i \in DOMAIN from : from[i] = ch
    THEN to[CHOOSE i \in DOMAIN from : from[i] = ch]
    ELSE ch

to_lowercase_Same(text) == text
to_lowercase(text) == [i \in DOMAIN text |-> LetterCase(text[i], Uppers, Lowers)]

to_uppercase_Same(text) == text
to_uppercase(text) == [i \in DOMAIN text |-> LetterCase(text[i], Lowers, Uppers)]

\* The Parse cursor is the sequence of frames not yet consumed. Each accessor
\* yields "ok" with a value, "eos" (EndOfStream) or "err", and the cursor left.
Next_(res, val, rest) == [res |-> res, val |-> val, rest |-> rest]

\* Parse::new
ParseNew(frame) ==
    IF frame.kind = "Array" THEN Next_("ok", NoText, frame.elems)
    ELSE Next_("err", NoText, <<>>)

next_string(parts) ==
    IF parts = <<>> THEN Next_("eos", NoText, parts)
    ELSE LET f == Head(parts)
         IN  IF f.kind = "Simple" THEN Next_("ok", f.str, Tail(parts))
             ELSE IF f.kind = "Bulk" /\ from_utf8(f.str) THEN Next_("ok", f.str, Tail(parts))
             ELSE Next_("err", NoText, Tail(parts))

next_bytes(parts) ==
    IF parts = <<>> THEN Next_("eos", NoText, parts)
    ELSE LET f == Head(parts)
         IN  IF f.kind \in {"Simple", "Bulk"} THEN Next_("ok", f.str, Tail(parts))
             ELSE Next_("err", NoText, Tail(parts))

next_int(parts, build) ==
    IF parts = <<>> THEN Next_("eos", NoNumber, parts)
    ELSE LET f == Head(parts)
         IN  IF f.kind = "Integer" THEN Next_("ok", f.num, Tail(parts))
             ELSE IF f.kind \in {"Simple", "Bulk"} /\ atoi(f.str, build) # NoNumber
                  THEN Next_("ok", atoi(f.str, build), Tail(parts))
             ELSE Next_("err", NoNumber, Tail(parts))

finish_Always(parts) == TRUE
finish(parts) == parts = <<>>

\* What a parse_frames returns: the command, or an error, and the cursor left.
Built(c, rest) == [res |-> "ok", cmd |-> c, rest |-> rest]
Rejected == [res |-> "err", cmd |-> NoParsed.cmd, rest |-> <<>>]

\* loop { match parse.next_string() { Ok(s) => push, Err(EndOfStream) => break,
\* Err(err) => return Err(err) } }
RECURSIVE StringsLoop(_, _)
StringsLoop(parts, acc) ==
    LET n == next_string(parts)
    IN  IF n.res = "eos" THEN [res |-> "ok", vals |-> acc]
        ELSE IF n.res = "err" THEN [res |-> "err", vals |-> acc]
        ELSE StringsLoop(n.rest, Append(acc, n.val))

GetParseFrames(parts) ==
    LET k == next_string(parts)
    IN  IF k.res # "ok" THEN Rejected
        ELSE Built(Cmd("get", k.val, NoText, NoExpire, <<>>), k.rest)

PublishParseFrames(parts) ==
    LET ch == next_string(parts)
        m == next_bytes(ch.rest)
    IN  IF ch.res # "ok" \/ m.res # "ok" THEN Rejected
        ELSE Built(Cmd("publish", ch.val, m.val, NoExpire, <<>>), m.rest)

\* Durations are counted in milliseconds.
from_secs(n) == n * 1000
from_millis(n) == n

SetParseFrames(parts, build) ==
    LET k == next_string(parts)
        v == next_bytes(k.rest)
        o == next_string(v.rest)
        n == next_int(o.rest, build)
    IN  IF k.res # "ok" \/ v.res # "ok" THEN Rejected
        ELSE IF o.res = "ok" /\ to_uppercase(o.val) = <<"E", "X">> THEN
            IF n.res # "ok" THEN Rejected
            ELSE Built(Cmd("set", k.val, v.val, from_secs(n.val), <<>>), n.rest)
        ELSE IF o.res = "ok" /\ to_uppercase(o.val) = <<"P", "X">> THEN
            IF n.res # "ok" THEN Rejected
            ELSE Built(Cmd("set", k.val, v.val, from_millis(n.val), <<>>), n.rest)
        ELSE IF o.res = "ok" THEN Rejected
        ELSE IF o.res = "eos" THEN Built(Cmd("set", k.val, v.val, NoExpire, <<>>), o.rest)
        ELSE Rejected

SubscribeParseFrames(parts) ==
    LET first == next_string(parts)
        more == StringsLoop(first.rest, <<first.val>>)
    IN  IF first.res # "ok" \/ more.res # "ok" THEN Rejected
        ELSE Built(Cmd("subscribe", NoText, NoText, NoExpire, more.vals), <<>>)

UnsubscribeParseFrames(parts) ==
    LET all == StringsLoop(parts, <<>>)
    IN  IF all.res # "ok" THEN Rejected
        ELSE Built(Cmd("unsubscribe", NoText, NoText, NoExpire, all.vals), <<>>)

PingParseFrames(parts) ==
    LET m == next_string(parts)
    IN  IF m.res = "err" THEN Rejected
        ELSE Built(Cmd("ping", NoText, m.val, NoExpire, <<>>), m.rest)

Name_get == <<"g", "e", "t">>
Name_set == <<"s", "e", "t">>
Name_ping == <<"p", "i", "n", "g">>
Name_publish == <<"p", "u", "b", "l", "i", "s", "h">>
Name_subscribe == <<"s", "u", "b", "s", "c", "r", "i", "b", "e">>
Name_unsubscribe == <<"u", "n">> \o Name_subscribe
CommandNames == {Name_get, Name_set, Name_ping, Name_publish, Name_subscribe,
                 Name_unsubscribe}

\* Command::from_frame
from_frame(frame, build) ==
    LET p == ParseNew(frame)
        first == next_string(p.rest)
        command_name == to_lowercase(first.val)
        r == CASE command_name = Name_get -> GetParseFrames(first.rest)
               [] command_name = Name_publish -> PublishParseFrames(first.rest)
               [] command_name = Name_set -> SetParseFrames(first.rest, build)
               [] command_name = Name_subscribe -> SubscribeParseFrames(first.rest)
               [] command_name = Name_unsubscribe -> UnsubscribeParseFrames(first.rest)
               [] command_name = Name_ping -> PingParseFrames(first.rest)
               [] OTHER -> Rejected
    IN  IF p.res # "ok" \/ first.res # "ok" THEN [res |-> "err", cmd |-> NoParsed.cmd]
        ELSE IF command_name \notin CommandNames
             THEN [res |-> "ok", cmd |-> Cmd("unknown", command_name, NoText, NoExpire, <<>>)]
        ELSE IF r.res # "ok" \/ ~finish(r.rest) THEN [res |-> "err", cmd |-> NoParsed.cmd]
        ELSE [res |-> "ok", cmd |-> r.cmd]

\* The frames a client may send: an array of a first element and up to
\* MaxTokens further elements, the empty array, and frames that are no array.
Text_k1 == <<"k", "1">>
Text_a == <<"a">>
NameTokens ==
    {Bulk(Name_get), Bulk(<<"G", "e", "T">>), Bulk(Name_set), Simple(<<"S", "E", "T">>),
     Bulk(Name_ping), Bulk(Name_publish), Bulk(Name_subscribe), Bulk(Name_unsubscribe),
     Bulk(<<"b", "o", "g", "u", "s">>), Integer(1)}
ArgTokens ==
    {Bulk(Text_k1), Bulk(Text_a), Bulk(<<"E", "X">>), Bulk(<<"p", "x">>),
     Bulk(<<"1">>), Bulk(<<"1", "x">>), Integer(2)}
ArgLists(n) == UNION {[1..m -> ArgTokens] : m \in 0..n}
CmdFrames(n) ==
    {Array(<<name>> \o args) : name \in NameTokens, args \in ArgLists(n)}
        \cup {Array(<<>>), Bulk(Name_get), Simple(Name_ping), Integer(1), Null}

\* No token carries a sign, so both builds of atoi read every token alike.
InitCmd ==
    /\ InitServer
    /\ buf = <<>>
    /\ atoi_build = "unsigned"
    /\ fpc = "idle"
    /\ chk = NoResult
    /\ prs = NoParse
    /\ inframe \in CmdFrames(MaxTokens)
    /\ parsed = NoParsed

\* The handler hands the frame it read to Command::from_frame.
DoFromFrame ==
    /\ parsed = NoParsed
    /\ parsed' = from_frame(inframe, atoi_build)
    /\ UNCHANGED <<inframe, frameVars, serverVars>>

\* The connection that receives the frame, and the keys and values of the
\* store that the texts of the frames stand for.
CmdConn == 1
Str(text) ==
    CASE text = Text_k1 -> KeyNames[1]
      [] text = Text_a -> ValNames[1]
      [] OTHER -> NoKey

\* The handler applies the command from_frame returned; on an error it
\* applies nothing. The GET and SET commands over the keys and values of the
\* store are followed into Db::get and Db::set.
ApplyParsed ==
    /\ parsed.res = "ok"
    /\ pc[CmdConn] = "idle"
    /\ ncmd = 0
    /\ \/ /\ parsed.cmd.kind = "get"
          /\ Str(parsed.cmd.key) \in Keys
          /\ cmd' = [cmd EXCEPT ![CmdConn] = GetCmd(Str(parsed.cmd.key))]
       \/ /\ parsed.cmd.kind = "set"
          /\ Str(parsed.cmd.key) \in Keys
          /\ Str(parsed.cmd.val) \in Vals
          /\ cmd' = [cmd EXCEPT ![CmdConn] =
                       SetCmd(Str(parsed.cmd.key), Str(parsed.cmd.val), parsed.cmd.expire)]
    /\ pc' = [pc EXCEPT ![CmdConn] = "apply"]
    /\ ncmd' = ncmd + 1
    /\ UNCHANGED <<psVars, kvVars, lock, poisoned, loc, out>>

NextCmd ==
    \/ DoFromFrame
    \/ ApplyParsed
    \/ GetDb(CmdConn) \/ GetReply(CmdConn)
    \/ SetBegin(CmdConn) \/ SetExpire(CmdConn) \/ SetInsert(CmdConn)
    \/ SetClear(CmdConn) \/ SetNotify(CmdConn) \/ SetReply(CmdConn)

SpecCmd == InitCmd /\ [][NextCmd]_vars

\* The command a first element names when letter case is ignored, and the
\* numbers of arguments each command's parser consumes.
IsText(f) == f.kind = "Simple" \/ (f.kind = "Bulk" /\ from_utf8(f.str))
NamedKind(text) ==
    CASE text \in {Name_get, <<"G", "e", "T">>} -> "get"
      [] text \in {Name_set, <<"S", "E", "T">>} -> "set"
      [] text = Name_ping -> "ping"
      [] text = Name_publish -> "publish"
      [] text = Name_subscribe -> "subscribe"
      [] text = Name_unsubscribe -> "unsubscribe"
      [] OTHER -> "unknown"
Consumes(kind, n) ==
    CASE kind = "get" -> n = 1
      [] kind = "publish" -> n = 2
      [] kind = "set" -> n \in {2, 4}
      [] kind = "ping" -> n \in {0, 1}
      [] kind = "subscribe" -> n >= 1
      [] OTHER -> TRUE

\* C22: Command::from_frame fails on a frame that is not an array; it selects
\* the command by the first element, letter case ignored; an unrecognized name
\* gives an Unknown command whatever follows it; a recognized command is
\* returned only when its parser consumed every argument.
C22_FromFrameDispatch ==
    parsed # NoParsed =>
        /\ inframe.kind # "Array" => parsed.res = "err"
        /\ inframe.kind = "Array" /\ inframe.elems # <<>> /\ IsText(inframe.elems[1]) =>
              LET kind == NamedKind(inframe.elems[1].str)
                  args == Tail(inframe.elems)
              IN  /\ kind = "unknown" =>
                        /\ parsed.res = "ok"
                        /\ parsed.cmd.kind = "unknown"
                        /\ parsed.cmd.key = to_lowercase(inframe.elems[1].str)
                  /\ kind # "unknown" /\ parsed.res = "ok" =>
                        /\ parsed.cmd.kind = kind
                        /\ Consumes(kind, Len(args))
                  /\ kind = "get" /\ args = <<Bulk(Text_k1)>> =>
                        parsed = [res |-> "ok",
                                  cmd |-> Cmd("get", Text_k1, NoText, NoExpire, <<>>)]

C22_Witness ==
    /\ inframe = Array(<<Bulk(<<"G", "e", "T">>), Bulk(Text_k1)>>)
    /\ parsed.res = "ok"
    /\ parsed.cmd.kind = "get"

\* What the SET grammar asks of the elements after the name, for a key and a
\* value of the right shape: no option, or EX n or PX n in any letter case
\* with n an integer, and nothing after it.
ExNames == {<<"E", "X">>, <<"E", "x">>, <<"e", "X">>, <<"e", "x">>}
PxNames == {<<"P", "X">>, <<"P", "x">>, <<"p", "X">>, <<"p", "x">>}
IsInteger(f) == f.kind = "Integer" \/ (IsText(f) /\ IsDecimal(f.str))
IntegerOf(f) == IF f.kind = "Integer" THEN f.num ELSE from_radix_10(f.str, 1, 0).n

SetGrammar(args) ==
    LET set(e) == [res |-> "ok", cmd |-> Cmd("set", args[1].str, args[2].str, e, <<>>)]
        err == [res |-> "err", cmd |-> NoParsed.cmd]
    IN  IF Len(args) = 2 THEN set(NoExpire)
        ELSE IF Len(args) = 4 /\ IsText(args[3]) /\ IsInteger(args[4])
                /\ args[3].str \in ExNames THEN set(1000 * IntegerOf(args[4]))
        ELSE IF Len(args) = 4 /\ IsText(args[3]) /\ IsInteger(args[4])
                /\ args[3].str \in PxNames THEN set(IntegerOf(args[4]))
        ELSE err

StoreUntouched ==
    /\ entries = [k \in Keys |-> NoEntry]
    /\ expirations = {}
    /\ next_id = 0

\* C23: SET k v gives no expiration, EX n gives n seconds and PX n gives n
\* milliseconds, the option name in any letter case; any other third token, a
\* missing or non-integer option value or a token after the option value is an
\* error, and on an error the store is not modified.
C23_SetOptions ==
    /\ parsed # NoParsed
    /\ inframe.kind = "Array" /\ Len(inframe.elems) >= 3
    /\ IsText(inframe.elems[1]) /\ NamedKind(inframe.elems[1].str) = "set"
    /\ IsText(inframe.elems[2]) /\ inframe.elems[3].kind \in {"Simple", "Bulk"}
    => /\ parsed = SetGrammar(Tail(inframe.elems))
       /\ parsed.res = "err" => StoreUntouched

\* ------------------------------------------------------------ a purge pass
\* Shared::purge_expired_keys as a function of the State it locks: the task
\* runs over every State that satisfies the struct's invariant, in which
\* expirations holds one (expires_at, id) -> key for each entry that has a
\* deadline, and ids are unique and below next_id.
Deadlines == 0..(MaxTime + MaxExpire)

Stored == [id : 0..(NumKeys - 1), data : Vals, expires_at : {NoTime} \cup Deadlines]

Tracked(ents) ==
    {[when |-> ents[k].expires_at, id |-> ents[k].id, key |-> k] :
        k \in {j \in Keys : ents[j] # NoEntry /\ ents[j].expires_at # NoTime}}

InitPurge ==
    /\ now \in 0..MaxTime
    /\ entries \in [Keys -> {NoEntry} \cup Stored]
    /\ \A j, k \in Keys : j # k /\ entries[j] # NoEntry => entries[j].id # entries[k].id
    /\ expirations = Tracked(entries)
    /\ next_id = NumKeys
    /\ InitTasks
    /\ InitNoFrame

SpecPurge == InitPurge /\ [][BgStep]_vars

\* C27: a purge pass removes exactly the entries whose deadline is at or before
\* the instant it sampled: an entry without deadline or with a later one is
\* left as it was, no expiration at or before the instant is left, and the
\* pass returns the earliest deadline that remains, none if none remains.
C27_PurgePassExact ==
    [][bg_pc = "purge" /\ bg_pc' = "wait" /\ ~shutdown =>
         /\ \A k \in Keys :
               entries'[k] = IF entries[k].expires_at # NoTime /\ entries[k].expires_at <= now'
                             THEN NoEntry ELSE entries[k]
         /\ expirations' = {e \in expirations : e.when > now'}
         /\ bg_when' = IF expirations' = {} THEN NoTime
                        ELSE MinExpiration(expirations').when]_vars

\* A pass has removed one key and kept another whose deadline is later, which
\* it returned.
C27_Witness ==
    /\ bg_pc = "wait"
    /\ purged # {}
    /\ expirations # {}
    /\ bg_when = MinExpiration(expirations).when
    /\ bg_when > now

MaxReplaceCmds == 1

HandlerRunSet(c) ==
    HandlerRead(c, {m \in StoreCmds : m.kind = "set"}, MaxReplaceCmds)

NextReplace ==
    \/ \E c \in Conns :
          \/ HandlerRunSet(c)
          \/ SetBegin(c) \/ SetExpire(c) \/ SetInsert(c) \/ SetClear(c)
          \/ SetNotify(c) \/ SetReply(c)
    \/ BgStep

SpecReplace == InitPurge /\ [][NextReplace]_vars

\* C29: when a set replaces an entry that had a deadline, the (deadline, id)
\* of that entry is no longer tracked once the set is done with the state,
\* and the old deadline has no further effect: a key is removed only when the
\* entry it holds at that moment has a deadline that has passed, so a key
\* overwritten without expiration is never removed and a key overwritten with
\* a later deadline is not removed before it.
C29_ReplacedDeadlineCleared ==
    [][/\ \A c \in Conns :
            (/\ pc[c] = "set_clear" /\ pc'[c] # "set_clear"
             /\ loc[c].prev.expires_at # NoTime)
               => \A e \in expirations' :
                     ~(e.when = loc[c].prev.expires_at /\ e.id = loc[c].prev.id)
       /\ \A k \in Keys :
            entries[k] # NoEntry /\ entries'[k] = NoEntry
               => /\ entries[k].expires_at # NoTime
                  /\ entries[k].expires_at <= now']_vars

\* A set without expiration has replaced an entry whose deadline has passed
\* since, the purge task has completed a pass after it, and the key holds the
\* entry of the set.
C29_Witness ==
    \E c \in Conns :
        /\ pc[c] = "set_reply"
        /\ cmd[c].expire = NoExpire
        /\ loc[c].prev.expires_at # NoTime
        /\ now >= loc[c].prev.expires_at
        /\ entries[cmd[c].key].id = loc[c].id
        /\ bg_pc = "wait"
        /\ bg_when = NoTime
        /\ expirations = {}

\* The ids in use are distinct and below next_id: those of the entries and
\* those of the sets that are inside Db::set.
IdsInUse ==
    /\ \A k \in Keys : entries[k] # NoEntry => entries[k].id \in 0..(next_id - 1)
    /\ \A j, k \in Keys : j # k /\ entries[j] # NoEntry => entries[j].id # entries[k].id
    /\ \A c \in Conns : loc[c].id # -1 =>
          /\ loc[c].id \in 0..(next_id - 1)
          /\ \A d \in Conns \ {c} : loc[d].id # loc[c].id
          /\ \A k \in Keys : entries[k].id = loc[c].id => k = cmd[c].key

\* C30: next_id increases by exactly one on every set, which takes the value
\* before the increase as its id and stores its entry under it, and no other
\* step changes next_id; so the ids handed out during the lifetime of the
\* store are all different, also when sets of several connections interleave.
C30_IdsUnique ==
    [][/\ \A c \in Conns :
            /\ pc[c] = "apply" /\ pc'[c] = "set_expire"
                  => loc'[c].id = next_id /\ next_id' = next_id + 1
            /\ pc[c] = "set_insert" /\ pc'[c] # "set_insert"
                  => entries'[cmd[c].key].id = loc[c].id
       /\ next_id' # next_id
            => \E c \in Conns : pc[c] = "apply" /\ pc'[c] = "set_expire"
       /\ IdsInUse']_vars

\* Three sets have taken an id: one holds the mutex on a key while another,
\* which replaced an entry of the same key, has released it and not returned.
C30_Witness ==
    /\ next_id >= 3
    /\ \E c, d \in Conns :
          /\ c # d
          /\ pc[c] = "set_notify"
          /\ pc[d] \in {"set_expire", "set_insert", "set_clear"}
          /\ cmd[c].key = cmd[d].key
          /\ loc[c].prev # NoEntry

\* The entry of key k carries a deadline that has passed and is still stored
\* while the mutex is free, so that a get which locks now returns its data.
Stale(k) ==
    /\ lock = Free
    /\ entries[k] # NoEntry
    /\ entries[k].expires_at # NoTime
    /\ entries[k].expires_at <= now

\* C31: get does not look at expires_at, it returns the data of the entry
\* that is stored; and a state is reached in which the entry a get would
\* return has a deadline that has passed, the purge task not having run yet:
\* a set with an expiration of zero that holds the mutex leads to one.
C31_GetIgnoresExpiration ==
    /\ [][\A c \in Conns :
            pc[c] = "apply" /\ cmd[c].kind = "get" /\ pc'[c] = "get_reply"
               => loc'[c].res = entries[cmd[c].key].data]_vars
    /\ \A c \in Conns : \A k \in Keys : \A v \in Vals :
          (/\ pc[c] = "set_expire"
           /\ cmd[c].key = k
           /\ cmd[c].val = v
           /\ cmd[c].expire = 0)
              ~> (Stale(k) /\ GetData(entries, k) = v)

\* The positions of Db::set between lock() and the end of the block that
\* owns the guard; none of them is an await.
CriticalPcs == {"set_expire", "set_insert", "set_clear"}

\* C32: the mutex is never held across a suspension point and the state is
\* only touched under it.  The holder is a task inside the block of Db::set,
\* at most one task is inside it, every step that changes entries,
\* expirations, next_id, shutdown or pub_sub is taken by the holder or, the
\* mutex being free, acquires it, and notify_one is called by a task that
\* has released the mutex.
C32_MutexNotHeldAcrossAwait ==
    [][/\ \A c \in Conns : (lock = c) <=> (pc[c] \in CriticalPcs)
       /\ lock \in Conns \cup {Free}
       /\ \A c, d \in Conns : pc[c] \in CriticalPcs /\ pc[d] \in CriticalPcs => c = d
       /\ <<entries, expirations, next_id, shutdown, pub_sub>>'
               # <<entries, expirations, next_id, shutdown, pub_sub>>
            => \/ lock = Free /\ lock' \in Conns \cup {Free}
               \/ lock \in Conns /\ pc'[lock] # pc[lock]
       /\ permit' /\ ~permit
            => /\ lock' = lock
               /\ \/ \E c \in Conns : pc[c] = "set_notify" /\ pc'[c] # "set_notify"
                                         /\ lock # c
                  \/ guard_pc = "notify" /\ guard_pc' = "done" /\ lock # Guard]_vars

\* A set is inside its critical section while the other connection has a
\* command that needs the mutex and the purge task is about to lock it.
C32_Witness ==
    \E c, d \in Conns :
        /\ c # d
        /\ lock = c
        /\ pc[c] = "set_insert"
        /\ pc[d] = "apply"
        /\ bg_pc = "purge"
        /\ next_id >= 2

\* C33: the decimal parser behind the length fields, the Integer frames and
\* the integer arguments of commands accepts a line exactly when it is a
\* non-empty run of digits, and then returns its value.  Read on an Integer
\* frame whose line is complete: Frame::check (get_decimal) and
\* Parse::next_int on the same bytes.
C33_DecimalParserStrict ==
    (fpc # "start" /\ buf # <<>> /\ buf[1] = ":" /\ get_line(buf, 1).res = "ok") =>
        LET line == get_line(buf, 1).line
            arg == next_int(<<Bulk(line)>>, atoi_build)
        IN  /\ (chk.res = "ok") <=> IsDecimal(line)
            /\ (arg.res = "ok") <=> IsDecimal(line)
            /\ IsDecimal(line) =>
                  /\ get_decimal(buf, 1, atoi_build).num = from_radix_10(line, 1, 0).n
                  /\ arg.val = from_radix_10(line, 1, 0).n

\* C34: Db::set never panics, in particular not when it is given an
\* expiration while expirations is empty, so the mutex is never poisoned and
\* no lock().unwrap() of a connection, of the purge task or of the drop guard
\* fails.
C34_SetNeverPanics ==
    /\ ~poisoned
    /\ \A c \in Conns : pc[c] # "panicked"
    /\ bg_pc # "panicked"
    /\ guard_pc # "panicked"

\* ------------------------------------------------------- nested arrays
\* The codec over buffers made of whole array headers and short elements, so
\* that arrays inside arrays fit in MaxNest pieces.
MaxNest == 5

NestTokens == {<<"*", "0", CR, LF>>, <<"*", "1", CR, LF>>, <<"*", "2", CR, LF>>,
               <<"+", CR, LF>>, <<":", "1", CR, LF>>, <<"$", "1", CR, LF>>,
               <<"$", "-">>, <<"1", CR, LF>>, <<"x", CR, LF>>, <<"x">>}

NestBuffers(n) == {Flatten(ts) : ts \in UNION {[1..m -> NestTokens] : m \in 0..n}}

InitNest ==
    /\ InitServer
    /\ buf \in NestBuffers(MaxNest)
    /\ atoi_build \in {"unsigned", "signed"}
    /\ fpc = "start"
    /\ chk = NoResult
    /\ prs = NoParse
    /\ inframe = NoFrame
    /\ parsed = NoParsed

SpecNest == InitNest /\ [][NextFrame]_vars

\* C35: Frame::parse run from the position from which Frame::check has just
\* succeeded never reaches unimplemented!(), whatever the depth of the
\* arrays: it returns a frame or an error.
C35_ParseAfterCheckNoPanic ==
    fpc = "parsed" /\ chk.res = "ok" => prs.res \in {"ok", "protocol", "incomplete"}

\* An array inside an array inside an array was checked and parsed.
C35_Witness ==
    /\ fpc = "parsed"
    /\ chk.res = "ok"
    /\ prs.res = "ok"
    /\ prs.frame.kind = "Array"
    /\ \E i \in DOMAIN prs.frame.elems :
          /\ prs.frame.elems[i].kind = "Array"
          /\ \E j \in DOMAIN prs.frame.elems[i].elems :
                prs.frame.elems[i].elems[j].kind = "Array"

\* The connection whose receiver yielded the message of a delivery.
DeliveredTo(d) == (CHOOSE e \in sentTo[d[2]][d[3]].rx : e.id = d[1]).conn

\* C36: the messages of a channel reach a subscribed connection in the order
\* in which their publish calls held the state lock, which is their order in
\* the channel's queue: every message frame written to a connection is the
\* yield of one new delivery, it carries the message at that position of the
\* queue, and every message of the same channel the connection was written
\* before, by whichever receiver, lies strictly earlier in the queue. So no
\* two messages arrive in the opposite order and none arrives twice.
C36_PerChannelOrder ==
    [][\A c \in Conns : \A ch \in Chans :
          (/\ pc[c] = "sub_select"
           /\ Len(out'[c]) = Len(out[c]) + 1
           /\ IsMessage(out'[c][Len(out'[c])], ch))
             => \E d \in delivered' \ delivered :
                   /\ d[2] = ch
                   /\ DeliveredTo(d)' = c
                   /\ out'[c][Len(out'[c])] = make_message_frame(ch, log[ch][d[3]])
                   /\ \A e \in delivered :
                         (e[2] = ch /\ DeliveredTo(e) = c) => e[3] < d[3]]_vars

\* A connection was written two messages of one channel, the one queued
\* first and then the one queued second.
C36_Witness ==
    \E d \in delivered : \E e \in delivered :
        /\ d[2] = e[2] /\ d[3] < e[3]
        /\ DeliveredTo(d) = DeliveredTo(e)
        /\ \E c \in Conns :
              /\ DeliveredTo(d) = c
              /\ Cardinality({j \in DOMAIN out[c] : IsMessage(out[c][j], d[2])}) >= 2

\* ------------------------------------------------ commands to request frames
\* A Duration of a whole number of milliseconds is written as that number, and
\* a number too wide for a 32-bit integer as its digits to the
\* base 65536, lowest first, with no zero at the high end: <<>> is 0,
\* <<0, 0, 0, 0, 1>> is 2^64. A u64 has at most U64Limbs such digits.
U64Limbs == 4

RECURSIVE Canon(_)
Canon(n) == IF n # <<>> /\ n[Len(n)] = 0 THEN Canon(SubSeq(n, 1, Len(n) - 1)) ELSE n

\* Duration::as_millis: the u128 count of milliseconds.
as_millis(d) == d

\* Variant of as_u64: the conversion keeps every digit.
as_u64_Wide(n) == n

\* `as u64` on a u128: the low 64 bits.
as_u64(n) == Canon(SubSeq(n, 1, IF Len(n) < U64Limbs THEN Len(n) ELSE U64Limbs))

\* A command as the client holds it: the fields of the structs Get, Set,
\* Publish, Ping, Subscribe and Unsubscribe, with expire an Option<Duration>
\* and the msg of Ping, an Option<String>, in val (NoText for None).
NoneDuration == [some |-> FALSE, ms |-> <<>>]
SomeDuration(ms) == [some |-> TRUE, ms |-> ms]
Command(kind, key, val, expire, chans) ==
    [kind |-> kind, key |-> key, val |-> val, expire |-> expire, chans |-> chans]

GetIntoFrame(c) == Array(<<Bulk(Name_get), Bulk(c.key)>>)

SetIntoFrame(c) ==
    Array(<<Bulk(Name_set), Bulk(c.key), Bulk(c.val)>>
            \o IF c.expire.some
               THEN <<Bulk(<<"p", "x">>), Integer(as_u64(as_millis(c.expire.ms)))>>
               ELSE <<>>)

PublishIntoFrame(c) == Array(<<Bulk(Name_publish), Bulk(c.key), Bulk(c.val)>>)

PingIntoFrame(c) ==
    Array(<<Bulk(Name_ping)>> \o IF c.val # NoText THEN <<Bulk(c.val)>> ELSE <<>>)

SubscribeIntoFrame(c) ==
    Array(<<Bulk(Name_subscribe)>> \o [i \in DOMAIN c.chans |-> Bulk(c.chans[i])])

UnsubscribeIntoFrame(c) ==
    Array(<<Bulk(Name_unsubscribe)>> \o [i \in DOMAIN c.chans |-> Bulk(c.chans[i])])

into_frame(c) ==
    CASE c.kind = "get" -> GetIntoFrame(c)
      [] c.kind = "set" -> SetIntoFrame(c)
      [] c.kind = "publish" -> PublishIntoFrame(c)
      [] c.kind = "ping" -> PingIntoFrame(c)
      [] c.kind = "subscribe" -> SubscribeIntoFrame(c)
      [] c.kind = "unsubscribe" -> UnsubscribeIntoFrame(c)

\* The Strings (valid UTF-8), the Bytes (any bytes) and the Durations the
\* commands are built from: 0, 1 and 1000 ms, u64::MAX ms, 2^64 ms,
\* 2^64 + 1 ms and Duration::from_secs(u64::MAX).
MaxChannels == 2
Strings == {<<>>, Text_k1, Text_a, <<"p", "x">>}
ByteStrings == Strings \cup {<<"ff">>, <<"E", "X">>}
Durations ==
    {<<>>, <<1>>, <<1000>>, <<65535, 65535, 65535, 65535>>, <<0, 0, 0, 0, 1>>,
     <<1, 0, 0, 0, 1>>, <<64536, 65535, 65535, 65535, 999>>}
Channels(n) == UNION {[1..k -> Strings] : k \in n..MaxChannels}

Commands ==
    {Command("get", k, NoText, NoneDuration, <<>>) : k \in Strings}
      \cup {Command("set", k, v, e, <<>>) :
               k \in Strings, v \in ByteStrings,
               e \in {NoneDuration} \cup {SomeDuration(d) : d \in Durations}}
      \cup {Command("publish", k, v, NoneDuration, <<>>) : k \in Strings, v \in ByteStrings}
      \cup {Command("ping", NoText, v, NoneDuration, <<>>) : v \in Strings}
      \cup {Command("subscribe", NoText, NoText, NoneDuration, chs) : chs \in Channels(1)}
      \cup {Command("unsubscribe", NoText, NoText, NoneDuration, chs) : chs \in Channels(0)}

\* A client has turned a command into its request frame.
InitRoundTrip ==
    /\ InitServer
    /\ buf = <<>>
    /\ atoi_build = "unsigned"
    /\ fpc = "idle"
    /\ chk = NoResult
    /\ prs = NoParse
    /\ inframe \in {into_frame(c) : c \in Commands}
    /\ parsed = NoParsed

\* The server hands the frame to Command::from_frame.
RoundTrip ==
    /\ parsed.res = "none"
    /\ parsed' = from_frame(inframe, atoi_build)
    /\ UNCHANGED <<inframe, frameVars, serverVars>>

SpecRoundTrip == InitRoundTrip /\ [][RoundTrip]_vars

\* The command from_frame returned has the kind and the fields of c.
SameCommand(c, d) ==
    /\ d.kind = c.kind
    /\ d.key = c.key
    /\ d.val = c.val
    /\ d.chans = c.chans
    /\ IF c.expire.some THEN d.expire = c.expire.ms ELSE d.expire = NoExpire

\* C38: turning a command into its request frame and the frame back into a
\* command is the identity: for every Get, Set (without expiration or with
\* one of a whole number of milliseconds), Publish, Ping, Subscribe of at
\* least one channel and Unsubscribe, from_frame of the frame succeeds and
\* returns a command of the same kind with the same fields.
C38_RoundTripIdentity ==
    parsed.res # "none" =>
        \A c \in Commands :
            into_frame(c) = inframe => parsed.res = "ok" /\ SameCommand(c, parsed.cmd)

\* The subscriber of SpecSubscriberFair with a select! that also takes its
\* message branch: the branch is picked at random among the ready ones, so a
\* message that is ready again and again is written in the end.
SpecDeliverFair ==
    /\ Init /\ [][NextSubscriber]_vars
    /\ \A c \in Conns :
          /\ WF_vars(SubscribeDb(c) \/ SubscribeAck(c) \/ UnsubscribeStep(c))
          /\ SF_vars(SubMessage(c))

\* The message at position p of the queue of ch was written to connection c.
WrittenTo(c, ch, p) ==
    \E d \in delivered : d[2] = ch /\ d[3] = p /\ DeliveredTo(d) = c

\* Connection c is out of its subscription to ch: it has returned from
\* Subscribe::apply, the shutdown signal has fired, or an unsubscribe ack
\* for ch is the last ack for ch it wrote.
SubscriptionOver(c, ch) ==
    \/ pc[c] \in {"returned", "failed", "panicked"}
    \/ sig
    \/ ~Acked(c, ch, Len(out[c]))

\* C37: a message sent on channel ch while connection c holds a subscribe ack
\* for ch with no later unsubscribe ack is eventually written to c, unless c
\* unsubscribes from ch, its connection ends or shutdown fires first; the
\* commands the client sends meanwhile, a repeated SUBSCRIBE to ch among
\* them, do not prevent it. (That it is written at most once is C36.)
C37_AckedMessageWritten ==
    \A c \in Conns : \A ch \in Chans : \A p \in 1..MaxPubSubCmds :
        (p <= Len(log[ch]) /\ c \in sentTo[ch][p].acked)
            ~> (WrittenTo(c, ch, p) \/ SubscriptionOver(c, ch))

\* C26: a set with an expiration goes on to signal the purge task once, after
\* it released the mutex, exactly when its deadline is strictly earlier than
\* the earliest one tracked before or none was tracked; a set without
\* expiration, or with a deadline that is not earlier, does not signal.
C26_SetSignalsWake ==
    [][\A c \in Conns :
         /\ pc[c] = "set_expire" /\ pc'[c] # "set_expire"
               => /\ pc'[c] = "set_insert"
                  /\ loc'[c].notify =
                        /\ cmd[c].expire # NoExpire
                        /\ \/ expirations = {}
                           \/ loc'[c].when < MinExpiration(expirations).when
         /\ pc[c] = "set_notify" /\ pc'[c] # "set_notify"
               => /\ lock # c
                  /\ permit' = (permit \/ loc[c].notify)
         /\ permit' /\ ~permit /\ guard_pc' = guard_pc
               => \E d \in Conns : /\ pc[d] = "set_notify" /\ pc'[d] # "set_notify"
                                    /\ loc[d].notify]_vars

\* C25: the set of channels that have a sender only grows.  Db::subscribe
\* adds the channel and keeps the receivers and the retained messages of a
\* sender that was there; Db::publish leaves the map alone, also on a channel
\* without sender; no other step (an unsubscribe, the drop of the last
\* receiver, the end of a connection, a shutdown) changes the map.
C25_ChannelsOnlyGrow ==
    [][/\ pub_sub \subseteq pub_sub'
       /\ \A c \in Conns :
            pc[c] = "sub_drain" /\ pc'[c] = "sub_insert"
               => /\ pub_sub' = pub_sub \cup {Head(subscribe_to[c])}
                  /\ rxs \subseteq rxs'
                  /\ log' = log
       /\ pub_sub' # pub_sub
               => \E c \in Conns : pc[c] = "sub_drain" /\ pc'[c] = "sub_insert"]_vars

\* Two channels have a sender, no receiver is left on either, and a publish
\* has answered 0.
C25_Witness ==
    /\ Cardinality(pub_sub) >= 2
    /\ rxs = {}
    /\ \E c \in Conns : \E i \in DOMAIN out[c] : out[c][i] = Integer(0)

\* ------------------------------------------------------ a slow subscriber
\* The first connection subscribes to one channel and then reads nothing until
\* the second connection has published more messages than the channel
\* retains; LagSlack is the number of messages published beyond the capacity.
LagSlack == 2
LagSubscriber == 1
LagChannel == ChanNames[1]
MaxLagCmds == 1 + Capacity + LagSlack

HandlerRunLag(c) ==
    IF c = LagSubscriber
    THEN HandlerRead(c, {SubscribeCmd(<<LagChannel>>)}, 1)
    ELSE /\ subs[LagSubscriber] # <<>>
         /\ HandlerRead(c, {PublishCmd(LagChannel, ValNames[1])}, MaxLagCmds)

SubMessageLate(c) ==
    /\ Len(log[LagChannel]) > Capacity
    /\ SubMessage(c)

NextLag ==
    \E c \in Conns :
        \/ HandlerRunLag(c)
        \/ PublishDb(c) \/ PublishReply(c)
        \/ SubscribeApply(c) \/ SubscribeDb(c) \/ SubscribeAck(c)
        \/ SubMessageLate(c)

\* A publish that was called goes on to its reply, and a stream that has a
\* message to yield is polled by the select of its connection.
SpecLagFair ==
    /\ Init /\ [][NextLag]_vars
    /\ \A c \in Conns :
          /\ WF_vars(PublishDb(c) \/ PublishReply(c))
          /\ WF_vars(SubMessageLate(c))

\* The receiver of the slow subscriber has fallen behind by more than the
\* channel retains.
Lagged(r) == r.next < Len(log[r.ch]) - Capacity + 1

\* C24: a subscriber that has fallen behind by more than the capacity of the
\* channel does not stall the publisher, whose publish returns, and is not
\* terminated: its connection stays in the subscription loop, its receiver
\* stays registered, and it goes on to receive later messages.
C24_LaggedSubscriberSurvives ==
    /\ [](\A c \in Conns : pc[c] = "apply" /\ cmd[c].kind = "publish"
                              => <>(pc[c] = "idle"))
    /\ []((\E r \in rxs : Lagged(r)) =>
             /\ pc[LagSubscriber] \in LoopPcs
             /\ <>(\E d \in delivered : d[3] > Len(log[LagChannel]) - Capacity))
    /\ [](subs[LagSubscriber] # <<>> =>
             /\ pc[LagSubscriber] \in LoopPcs
             /\ \E r \in rxs : r.id = subs[LagSubscriber][1].rx)

C24_Witness ==
    /\ Len(log[LagChannel]) > Capacity + 1
    /\ \E d \in delivered : d[3] > 1
    /\ \A d \in delivered : d[3] # 1
    /\ pc[LagSubscriber] \in LoopPcs

====
